---- MODULE Spec2Model ----
(***************************************************************************)
(* Model of the musication-backend comparison service.                     *)
(*                                                                         *)
(*   Spec       the comparison jobs of app.py: the compare_tracks request  *)
(*              handler and the background worker                          *)
(*              _process_comparison_async, interleaved over MaxJobs jobs.  *)
(*   SpecDTW    MelodyAnalyzer.compute_dtw_alignment on bounded feature    *)
(*              sequences.                                                 *)
(*   SpecChroma MelodyAnalyzer.transpose_chroma and                        *)
(*              find_best_transposition on bounded chroma matrices.        *)
(*   SpecScore  SimilarityComparator.compute_overall_similarity on a grid  *)
(*              of component similarities and tempo ratios.                *)
(*   SpecLocal  MelodyAnalyzer.compute_local_alignment and                 *)
(*              SimilarityComparator.find_similar_segments on bounded      *)
(*              cost matrices.                                             *)
(*   SpecCompare SimilarityComparator.compare_tracks on bounded features.  *)
(*   SpecExtract AudioAnalyzer.extract_all_features, stage by stage.       *)
(*   SpecIdentify MusicIdentifier.identify, statement by statement.        *)
(*   SpecUpload create_track of app.py over concurrent upload requests.    *)
(*   SpecRender VisualizationGenerator.generate_all_visualizations run by  *)
(*              the workers of concurrent jobs.                            *)
(*   SpecAnalyze analyze_track of app.py, statement by statement.          *)
(***************************************************************************)
EXTENDS Integers, Sequences, FiniteSets, TLC

\* ------------------------------------------------------------------ bounds
\* Number of comparison requests (one analysis row / worker thread each).
MaxJobs == 2

Jobs == 1..MaxJobs

\* ------------------------------------------------------------------ state
VARIABLES
    \* --- database, committed rows (models.py Analysis / Artifact)
    status,          \* Analysis.status of job j, "none" while no row exists
    method,          \* Analysis.method of job j, "none" while no row exists
    summary,         \* Analysis.summary of job j: none / message / error / result
    artifacts,       \* artifact_type of the persisted Artifact rows of job j
    \* --- process-wide progress map (app.py progress_store), a dictionary
    \* from the jobs that have an entry to their latest progress report
    progress_store,
    \* --- compare_tracks request handler
    hpc,             \* position of the handler of job j
    response,        \* HTTP status returned for job j, 0 while none
    \* --- _process_comparison_async worker thread
    pc,              \* position of the worker of job j
    analysis,        \* the worker's local `analysis`: "unbound" or "bound"
    session_new,     \* artifact types db.add()ed and not yet committed
    visualizations,  \* names returned by generate_all_visualizations that
                     \* the saving loop has not yet turned into artifacts
    temp_files,      \* the worker's temp_files list (which of the 2 files)
    disk,            \* temporary files of job j that exist on disk
    raised,          \* TRUE once a step of the worker has raised
    \* --- pure functions (SpecDTW / SpecChroma)
    phase,
    features1, features2, dtw_out,
    chroma1, chroma2, semitones, transposed, restored, best,
    \* --- compute_overall_similarity (SpecScore, SpecCompare)
    chroma_similarity, melody_similarity, tempo_ratio, overall_result,
    \* --- compute_local_alignment / find_similar_segments (SpecLocal)
    cost_matrix, window_size, threshold, local_regions, similar_segments,
    \* --- compare_tracks of the comparator (SpecCompare)
    f0_1, f0_2,      \* f0_smoothed of the two tracks (Hz, 0 = unvoiced)
    tempo1, tempo2,  \* features['tempo'] of the two tracks
    chroma_result, melody_result,
    \* --- extract_all_features (SpecExtract)
    epc,             \* position inside extract_all_features
    audio_file,      \* what the path of the current call points at
    extract_error,   \* the exception the current call raised, if any
    error_log,       \* <<cause, type>> of the exceptions raised so far
    calls,           \* number of calls made
    \* --- generate_all_visualizations of concurrent workers (SpecRender)
    figs,            \* pyplot's open figures, oldest first; the last one
                     \* is the current figure
    rpc,             \* position of the renderer of job j
    laid_out,        \* the open figures tight_layout has been applied to
    images,          \* the images job j's renderer has produced
    \* --- create_track (SpecUpload)
    tracks,          \* the rows of the tracks table
    upc,             \* position of the handler of upload u
    checksum,        \* checksum of the bytes of upload u
    existing,        \* what the query of upload u returned
    upload_response, \* HTTP status and track returned for upload u
    \* --- analyze_track (SpecAnalyze)
    apc,             \* position of the handler of the current request
    a_track,         \* what the requested track id points at
    a_analysis,      \* the persisted Analysis row of the current request
    a_session,       \* the changes of the session not yet committed
    a_result,        \* what identify_music returned
    a_response,      \* HTTP status of the answer, 0 while none
    a_calls,         \* number of requests made
    a_temp,          \* whether the temporary audio file is on disk
    \* --- MusicIdentifier.identify (SpecIdentify)
    ipc,             \* position inside identify
    id_input,        \* the file, the lookup outcome and max_results
    matches,         \* the local list `matches`
    id_result        \* the dictionary returned, Null while none

jobVars == <<status, method, summary, artifacts, progress_store, hpc,
             response, pc, analysis, session_new, visualizations, temp_files,
             disk, raised>>
dtwVars == <<features1, features2, dtw_out>>
chromaVars == <<chroma1, chroma2, semitones, transposed, restored, best>>
scoreVars == <<chroma_similarity, melody_similarity, tempo_ratio,
               overall_result>>
localVars == <<cost_matrix, window_size, threshold, local_regions,
               similar_segments>>
compareVars == <<f0_1, f0_2, tempo1, tempo2, chroma_result, melody_result>>
extractVars == <<epc, audio_file, extract_error, error_log, calls>>
renderVars == <<figs, rpc, laid_out, images>>
uploadVars == <<tracks, upc, checksum, existing, upload_response>>
analyzeVars == <<apc, a_track, a_analysis, a_session, a_result, a_response,
                 a_calls, a_temp>>
identifyVars == <<ipc, id_input, matches, id_result>>
serviceVars == <<renderVars, uploadVars, analyzeVars, identifyVars>>
vars == <<jobVars, phase, dtwVars, chromaVars, scoreVars, localVars,
          compareVars, extractVars, serviceVars>>

Null == "null"

\* ------------------------------------------------------------ job: helpers

\* A handler that leaves the status to the column's server default
\* (models.py line 46).
InitialStatusServerDefault == "pending"

\* The value compare_tracks writes to Analysis.status when it creates the row.
InitialStatus == "processing"

\* The value compare_tracks writes to Analysis.method.
ComparisonMethod == "similarity_comparison"

\* The artifact_type of the JSON results artifact.
ReportType == "similarity_report"

\* Names generate_all_visualizations always returns, and the optional one.
FixedVisualizations == {"chroma_heatmap", "dtw_heatmap", "melody_contours",
                        "summary_dashboard"}
SegmentsVisualization == "segments_timeline"

Progress(s, p) == [status |-> s, progress |-> p]

\* progress_store[progress_key] = {...}: the dictionary with the entry of
\* job j set.
StoreProgress(j, s, p) ==
    [k \in DOMAIN progress_store \cup {j} |->
        IF k = j THEN Progress(s, p) ELSE progress_store[k]]

\* A worker whose progress write after the final commit can raise.
RaisingStepsAfterCommit == {"query", "compare", "viz", "pdone"}

\* A worker whose artifact construction can raise between two db.add calls.
RaisingStepsWhileSaving == {"query", "compare", "viz", "add_report"}

\* Worker steps inside the try block whose statement can raise without any
\* effect of its own: the Analysis query, the comparison pipeline (feature
\* extraction, alignment, scoring) and the visualization rendering.  The
\* temp-file writes and the commits raise too; they have effects and are
\* modelled in their own actions.
RaisingSteps == {"query", "compare", "viz"}

JobInit ==
    /\ status = [j \in Jobs |-> "none"]
    /\ method = [j \in Jobs |-> "none"]
    /\ summary = [j \in Jobs |-> "none"]
    /\ artifacts = [j \in Jobs |-> {}]
    /\ progress_store = [k \in {} |-> Null]
    /\ hpc = [j \in Jobs |-> "create"]
    /\ response = [j \in Jobs |-> 0]
    /\ pc = [j \in Jobs |-> "idle"]
    /\ analysis = [j \in Jobs |-> "unbound"]
    /\ session_new = [j \in Jobs |-> {}]
    /\ visualizations = [j \in Jobs |-> {}]
    /\ temp_files = [j \in Jobs |-> {}]
    /\ disk = [j \in Jobs |-> {}]
    /\ raised = [j \in Jobs |-> FALSE]

DtwIdle == features1 = <<>> /\ features2 = <<>> /\ dtw_out = Null

ChromaIdle ==
    /\ chroma1 = <<>> /\ chroma2 = <<>> /\ semitones = 0
    /\ transposed = Null /\ restored = Null /\ best = Null

ScoreIdle ==
    /\ chroma_similarity = Null /\ melody_similarity = Null
    /\ tempo_ratio = Null /\ overall_result = Null

LocalIdle ==
    /\ cost_matrix = <<>> /\ window_size = 0 /\ threshold = Null
    /\ local_regions = <<>> /\ similar_segments = <<>>

CompareIdle ==
    /\ f0_1 = <<>> /\ f0_2 = <<>>
    /\ tempo1 = 0 /\ tempo2 = 0
    /\ chroma_result = Null /\ melody_result = Null

ExtractIdle ==
    /\ epc = "idle" /\ audio_file = Null
    /\ extract_error = Null /\ error_log = {} /\ calls = 0

RenderIdle ==
    /\ figs = <<>> /\ rpc = [j \in Jobs |-> [plot |-> 0, step |-> "idle"]]
    /\ laid_out = {} /\ images = [j \in Jobs |-> {}]

UploadIdle ==
    /\ tracks = {} /\ upc = <<>> /\ checksum = <<>>
    /\ existing = <<>> /\ upload_response = <<>>

\* No Analysis row, and the result before identify_music was called.
NoAnalysis == [status |-> "none", completed_at |-> FALSE, artifacts |-> {}]
NotIdentified == [success |-> FALSE, matches |-> <<>>, error |-> "not called"]

\* analyze_track is not running.
AnalyzeIdle ==
    /\ apc = "idle" /\ a_track = Null /\ a_analysis = NoAnalysis
    /\ a_session = NoAnalysis /\ a_result = NotIdentified
    /\ a_response = 0 /\ a_calls = 0 /\ a_temp = FALSE

IdentifyIdle ==
    /\ ipc = "idle" /\ id_input = Null /\ matches = <<>> /\ id_result = Null

ServicesIdle == RenderIdle /\ UploadIdle /\ AnalyzeIdle /\ IdentifyIdle

PureIdle ==
    /\ phase = "jobs"
    /\ DtwIdle /\ ChromaIdle /\ ScoreIdle /\ LocalIdle /\ CompareIdle
    /\ ExtractIdle

pureVars == <<phase, dtwVars, chromaVars, scoreVars, localVars, compareVars,
              extractVars>>

\* Everything outside the comparison jobs.
otherVars == <<pureVars, serviceVars>>

\* ----------------------------------------------- job: compare_tracks handler

\* Lines 349-355: one of the two tracks does not exist: 404, nothing created.
CompareTracksNotFound(j) ==
    /\ hpc[j] = "create"
    /\ hpc' = [hpc EXCEPT ![j] = "returned"]
    /\ response' = [response EXCEPT ![j] = 404]
    /\ UNCHANGED <<status, summary, artifacts, progress_store, pc, analysis,
                   session_new, visualizations, temp_files, disk, raised>>
    /\ UNCHANGED <<method, otherVars>>

\* Lines 357-366: the Analysis row is added and committed.
CompareTracksCreate(j) ==
    /\ hpc[j] = "create"
    /\ status' = [status EXCEPT ![j] = InitialStatus]
    /\ method' = [method EXCEPT ![j] = ComparisonMethod]
    /\ summary' = [summary EXCEPT ![j] = "message"]
    /\ hpc' = [hpc EXCEPT ![j] = "init_progress"]
    /\ UNCHANGED <<artifacts, progress_store, response, pc, analysis,
                   session_new, visualizations, temp_files, disk, raised>>
    /\ UNCHANGED otherVars

\* Lines 365, 395-397: the commit raises; the handler answers 500 and the
\* row is not persisted.
CompareTracksCommitFails(j) ==
    /\ hpc[j] = "create"
    /\ hpc' = [hpc EXCEPT ![j] = "returned"]
    /\ response' = [response EXCEPT ![j] = 500]
    /\ UNCHANGED <<status, summary, artifacts, progress_store, pc, analysis,
                   session_new, visualizations, temp_files, disk, raised>>
    /\ UNCHANGED <<method, otherVars>>

\* Lines 370-376.
CompareTracksInitProgress(j) ==
    /\ hpc[j] = "init_progress"
    /\ progress_store' = StoreProgress(j, "processing", 5)
    /\ hpc' = [hpc EXCEPT ![j] = "start_thread"]
    /\ UNCHANGED <<status, summary, artifacts, response, pc, analysis,
                   session_new, visualizations, temp_files, disk, raised>>
    /\ UNCHANGED <<method, otherVars>>

\* Lines 378-386: thread.start(); the worker may run from here on.
CompareTracksStartThread(j) ==
    /\ hpc[j] = "start_thread"
    /\ pc' = [pc EXCEPT ![j] = "query"]
    /\ hpc' = [hpc EXCEPT ![j] = "respond"]
    /\ UNCHANGED <<status, summary, artifacts, progress_store, response,
                   analysis, session_new, visualizations, temp_files, disk,
                   raised>>
    /\ UNCHANGED <<method, otherVars>>

\* A handler that joins the worker thread before it answers.
CompareTracksRespondAfterJoin(j) ==
    /\ hpc[j] = "respond"
    /\ pc[j] = "done"
    /\ hpc' = [hpc EXCEPT ![j] = "returned"]
    /\ response' = [response EXCEPT ![j] = 202]
    /\ UNCHANGED <<status, summary, artifacts, progress_store, pc, analysis,
                   session_new, visualizations, temp_files, disk, raised>>
    /\ UNCHANGED <<method, otherVars>>

\* Lines 388-393.
CompareTracksRespond(j) ==
    /\ hpc[j] = "respond"
    /\ hpc' = [hpc EXCEPT ![j] = "returned"]
    /\ response' = [response EXCEPT ![j] = 202]
    /\ UNCHANGED <<status, summary, artifacts, progress_store, pc, analysis,
                   session_new, visualizations, temp_files, disk, raised>>
    /\ UNCHANGED <<method, otherVars>>

\* --------------------------------- job: _process_comparison_async worker

\* A worker whose report before the comparison falls back to 25 per cent.
ProgressStepsFallingBack ==
    [p10 |-> [progress |-> 10, next |-> "tmp1"],
     p20 |-> [progress |-> 20, next |-> "p30"],
     p30 |-> [progress |-> 30, next |-> "p50"],
     p50 |-> [progress |-> 25, next |-> "compare"],
     p70 |-> [progress |-> 70, next |-> "p80"],
     p80 |-> [progress |-> 80, next |-> "viz"],
     p90 |-> [progress |-> 90, next |-> "add_viz"]]

\* The progress_store writes of the worker that report "processing": the
\* position, the percentage written and the position that follows.
ProgressSteps ==
    [p10 |-> [progress |-> 10, next |-> "tmp1"],
     p20 |-> [progress |-> 20, next |-> "p30"],
     p30 |-> [progress |-> 30, next |-> "p50"],
     p50 |-> [progress |-> 50, next |-> "compare"],
     p70 |-> [progress |-> 70, next |-> "p80"],
     p80 |-> [progress |-> 80, next |-> "viz"],
     p90 |-> [progress |-> 90, next |-> "add_viz"]]

\* The position after a step of the straight-line part of the try block.
NextStep ==
    [query |-> "p10", tmp1 |-> "tmp2", tmp2 |-> "exists1",
     exists1 |-> "exists2", exists2 |-> "p20", compare |-> "p70",
     viz |-> "p90", add_viz |-> "add_report", add_report |-> "commit",
     commit |-> "pdone"]

TempStep(n) == IF n = 1 THEN "tmp1" ELSE "tmp2"
ExistsStep(n) == IF n = 1 THEN "exists1" ELSE "exists2"

\* Lines 577-585, the finally block: every name in temp_files is removed
\* from disk, the session closes and the function returns, which ends its
\* locals.  It touches only the worker's own files and session, so it is
\* taken in one step with the progress write that precedes it.
Finally(j) ==
    /\ disk' = [disk EXCEPT ![j] = @ \ temp_files[j]]
    /\ temp_files' = [temp_files EXCEPT ![j] = {}]
    /\ analysis' = [analysis EXCEPT ![j] = "unbound"]
    /\ visualizations' = [visualizations EXCEPT ![j] = {}]
    /\ pc' = [pc EXCEPT ![j] = "done"]

\* Line 415: the Analysis row is loaded into the session.
WorkerQuery(j) ==
    /\ pc[j] = "query"
    /\ analysis' = [analysis EXCEPT ![j] = "bound"]
    /\ pc' = [pc EXCEPT ![j] = NextStep.query]
    /\ UNCHANGED <<status, summary, artifacts, progress_store, hpc, response,
                   session_new, visualizations, temp_files, disk, raised>>
    /\ UNCHANGED <<method, otherVars>>

\* A statement of the try block raises: control goes to the except handler
\* (line 559).
WorkerRaise(j) ==
    /\ pc[j] \in RaisingSteps
    /\ raised' = [raised EXCEPT ![j] = TRUE]
    /\ pc' = [pc EXCEPT ![j] = "except"]
    /\ UNCHANGED <<status, summary, artifacts, progress_store, hpc, response,
                   analysis, session_new, visualizations, temp_files, disk>>
    /\ UNCHANGED <<method, otherVars>>

\* Lines 420-424, 464-485, 495-507, 512-516.
WorkerProgress(j) ==
    /\ pc[j] \in DOMAIN ProgressSteps
    /\ progress_store' = StoreProgress(j, "processing", ProgressSteps[pc[j]].progress)
    /\ pc' = [pc EXCEPT ![j] = ProgressSteps[pc[j]].next]
    /\ UNCHANGED <<status, summary, artifacts, hpc, response, analysis,
                   session_new, visualizations, temp_files, disk, raised>>
    /\ UNCHANGED <<method, otherVars>>

\* Lines 427-431 (n = 1) and 433-437 (n = 2): the file is created, written,
\* closed and its name appended to temp_files.
WorkerTempFile(j, n) ==
    /\ pc[j] = TempStep(n)
    /\ disk' = [disk EXCEPT ![j] = @ \cup {n}]
    /\ temp_files' = [temp_files EXCEPT ![j] = @ \cup {n}]
    /\ pc' = [pc EXCEPT ![j] = NextStep[pc[j]]]
    /\ UNCHANGED <<status, summary, artifacts, progress_store, hpc, response,
                   analysis, session_new, visualizations, raised>>
    /\ UNCHANGED <<method, otherVars>>

\* Lines 427-428 / 433-434: NamedTemporaryFile(delete=False) has created the
\* file and write() raises (disk full, or a blob that is not bytes); the
\* append of line 431 / 437 is not reached.
WorkerTempFileRaises(j, n) ==
    /\ pc[j] = TempStep(n)
    /\ disk' = [disk EXCEPT ![j] = @ \cup {n}]
    /\ raised' = [raised EXCEPT ![j] = TRUE]
    /\ pc' = [pc EXCEPT ![j] = "except"]
    /\ UNCHANGED <<status, summary, artifacts, progress_store, hpc, response,
                   analysis, session_new, visualizations, temp_files>>
    /\ UNCHANGED <<method, otherVars>>

\* Lines 439 / 450: os.path.exists(audio_path) is true.
WorkerFileExists(j, n) ==
    /\ pc[j] = ExistsStep(n)
    /\ n \in disk[j]
    /\ pc' = [pc EXCEPT ![j] = NextStep[pc[j]]]
    /\ UNCHANGED <<status, summary, artifacts, progress_store, hpc, response,
                   analysis, session_new, visualizations, temp_files, disk,
                   raised>>
    /\ UNCHANGED <<method, otherVars>>

\* Lines 439-442 / 450-453: the file has been removed from the temporary
\* directory behind the worker's back; the worker commits status failed.
WorkerFileMissing(j, n) ==
    /\ pc[j] = ExistsStep(n)
    /\ disk' = [disk EXCEPT ![j] = @ \ {n}]
    /\ status' = [status EXCEPT ![j] = "failed"]
    /\ summary' = [summary EXCEPT ![j] = "error"]
    /\ pc' = [pc EXCEPT ![j] = "pfail"]
    /\ UNCHANGED <<artifacts, progress_store, hpc, response, analysis,
                   session_new, visualizations, temp_files, raised>>
    /\ UNCHANGED <<method, otherVars>>

\* Lines 442 / 453: the same, but the commit raises.
WorkerFileMissingCommitRaises(j, n) ==
    /\ pc[j] = ExistsStep(n)
    /\ disk' = [disk EXCEPT ![j] = @ \ {n}]
    /\ raised' = [raised EXCEPT ![j] = TRUE]
    /\ pc' = [pc EXCEPT ![j] = "except"]
    /\ UNCHANGED <<status, summary, artifacts, progress_store, hpc, response,
                   analysis, session_new, visualizations, temp_files>>
    /\ UNCHANGED <<method, otherVars>>

\* Lines 488-492: comparator.compare_tracks returns.
WorkerCompare(j) ==
    /\ pc[j] = "compare"
    /\ pc' = [pc EXCEPT ![j] = NextStep.compare]
    /\ UNCHANGED <<status, summary, artifacts, progress_store, hpc, response,
                   analysis, session_new, visualizations, temp_files, disk,
                   raised>>
    /\ UNCHANGED <<method, otherVars>>

\* Lines 509-510: generate_all_visualizations returns its dictionary; the
\* segments timeline is in it when similar segments were found.
WorkerVisualize(j) ==
    /\ pc[j] = "viz"
    /\ \E segments \in BOOLEAN :
         visualizations' = [visualizations EXCEPT ![j] =
             FixedVisualizations \cup
             (IF segments THEN {SegmentsVisualization} ELSE {})]
    /\ pc' = [pc EXCEPT ![j] = NextStep.viz]
    /\ UNCHANGED <<status, summary, artifacts, progress_store, hpc, response,
                   analysis, session_new, temp_files, disk, raised>>
    /\ UNCHANGED <<method, otherVars>>

\* Lines 519-526: one Artifact per visualization is added to the session.
WorkerAddVisualizations(j) ==
    /\ pc[j] = "add_viz"
    /\ session_new' = [session_new EXCEPT ![j] = @ \cup visualizations[j]]
    /\ visualizations' = [visualizations EXCEPT ![j] = {}]
    /\ pc' = [pc EXCEPT ![j] = NextStep.add_viz]
    /\ UNCHANGED <<status, summary, artifacts, progress_store, hpc, response,
                   analysis, temp_files, disk, raised>>
    /\ UNCHANGED <<method, otherVars>>

\* Lines 529-542: the similarity_report Artifact is added to the session.
WorkerAddReport(j) ==
    /\ pc[j] = "add_report"
    /\ session_new' = [session_new EXCEPT ![j] = @ \cup {ReportType}]
    /\ pc' = [pc EXCEPT ![j] = NextStep.add_report]
    /\ UNCHANGED <<status, summary, artifacts, progress_store, hpc, response,
                   analysis, visualizations, temp_files, disk, raised>>
    /\ UNCHANGED <<method, otherVars>>

\* Lines 545-548: status, summary and the added artifacts are committed in
\* one transaction.
WorkerCommit(j) ==
    /\ pc[j] = "commit"
    /\ status' = [status EXCEPT ![j] = "completed"]
    /\ summary' = [summary EXCEPT ![j] = "result"]
    /\ artifacts' = [artifacts EXCEPT ![j] = @ \cup session_new[j]]
    /\ session_new' = [session_new EXCEPT ![j] = {}]
    /\ pc' = [pc EXCEPT ![j] = NextStep.commit]
    /\ UNCHANGED <<progress_store, hpc, response, analysis, visualizations,
                   temp_files, disk, raised>>
    /\ UNCHANGED <<method, otherVars>>

\* Line 548: the commit raises; the session rolls the transaction back,
\* which discards the pending artifacts and the attribute changes.
WorkerCommitRaises(j) ==
    /\ pc[j] = "commit"
    /\ session_new' = [session_new EXCEPT ![j] = {}]
    /\ raised' = [raised EXCEPT ![j] = TRUE]
    /\ pc' = [pc EXCEPT ![j] = "except"]
    /\ UNCHANGED <<status, summary, artifacts, progress_store, hpc, response,
                   analysis, visualizations, temp_files, disk>>
    /\ UNCHANGED <<method, otherVars>>

\* Lines 550-555, then the finally block.
WorkerProgressDone(j) ==
    /\ pc[j] = "pdone"
    /\ progress_store' = StoreProgress(j, "completed", 100)
    /\ Finally(j)
    /\ UNCHANGED <<status, summary, artifacts, hpc, response, session_new,
                   raised>>
    /\ UNCHANGED <<method, otherVars>>

\* Lines 564-567: the except handler marks the analysis failed and commits
\* the session, whatever is pending in it.
WorkerExceptCommit(j) ==
    /\ pc[j] = "except"
    /\ analysis[j] = "bound"
    /\ status' = [status EXCEPT ![j] = "failed"]
    /\ summary' = [summary EXCEPT ![j] = "error"]
    /\ artifacts' = [artifacts EXCEPT ![j] = @ \cup session_new[j]]
    /\ session_new' = [session_new EXCEPT ![j] = {}]
    /\ pc' = [pc EXCEPT ![j] = "pfail"]
    /\ UNCHANGED <<progress_store, hpc, response, analysis, visualizations,
                   temp_files, disk, raised>>
    /\ UNCHANGED <<method, otherVars>>

\* Lines 567-569: the handler's own commit raises; the bare except swallows
\* the error and nothing is persisted.
WorkerExceptCommitRaises(j) ==
    /\ pc[j] = "except"
    /\ analysis[j] = "bound"
    /\ session_new' = [session_new EXCEPT ![j] = {}]
    /\ pc' = [pc EXCEPT ![j] = "pfail"]
    /\ UNCHANGED <<status, summary, artifacts, progress_store, hpc, response,
                   analysis, visualizations, temp_files, disk, raised>>
    /\ UNCHANGED <<method, otherVars>>

\* Lines 565, 568-569: the query of line 415 raised, so the local name
\* `analysis` was never assigned; `analysis.status = ...` raises NameError,
\* which the bare except swallows.
WorkerExceptUnbound(j) ==
    /\ pc[j] = "except"
    /\ analysis[j] = "unbound"
    /\ pc' = [pc EXCEPT ![j] = "pfail"]
    /\ UNCHANGED <<status, summary, artifacts, progress_store, hpc, response,
                   analysis, session_new, visualizations, temp_files, disk,
                   raised>>
    /\ UNCHANGED <<method, otherVars>>

\* Lines 443-448, 454-459 (early return) and 571-576 (except handler), then
\* the finally block.
WorkerProgressFailed(j) ==
    /\ pc[j] = "pfail"
    /\ progress_store' = StoreProgress(j, "failed", 0)
    /\ Finally(j)
    /\ UNCHANGED <<status, summary, artifacts, hpc, response, session_new,
                   raised>>
    /\ UNCHANGED <<method, otherVars>>

\* get_analysis_progress, the answer of GET /analyses/<id>/progress for the
\* analysis of job j in the current state: the entry of progress_store when
\* there is one, and otherwise an answer derived from the persisted row.
get_analysis_progress(j) ==
    IF j \in DOMAIN progress_store
    THEN [code |-> 200, status |-> progress_store[j].status,
          progress |-> progress_store[j].progress]
    ELSE IF status[j] = "none"
    THEN [code |-> 404, status |-> "none", progress |-> 0]
    ELSE IF status[j] = "completed"
    THEN [code |-> 200, status |-> "completed", progress |-> 100]
    ELSE IF status[j] = "failed"
    THEN [code |-> 200, status |-> "failed", progress |-> 0]
    ELSE [code |-> 200, status |-> "processing", progress |-> 0]

Init == JobInit /\ PureIdle /\ ServicesIdle

Next ==
    \E j \in Jobs :
        \/ CompareTracksNotFound(j)
        \/ CompareTracksCreate(j)
        \/ CompareTracksCommitFails(j)
        \/ CompareTracksInitProgress(j)
        \/ CompareTracksStartThread(j)
        \/ CompareTracksRespond(j)
        \/ WorkerQuery(j)
        \/ WorkerRaise(j)
        \/ WorkerProgress(j)
        \/ \E n \in 1..2 : WorkerTempFile(j, n)
        \/ \E n \in 1..2 : WorkerTempFileRaises(j, n)
        \/ \E n \in 1..2 : WorkerFileExists(j, n)
        \/ \E n \in 1..2 : WorkerFileMissing(j, n)
        \/ \E n \in 1..2 : WorkerFileMissingCommitRaises(j, n)
        \/ WorkerCompare(j)
        \/ WorkerVisualize(j)
        \/ WorkerAddVisualizations(j)
        \/ WorkerAddReport(j)
        \/ WorkerCommit(j)
        \/ WorkerCommitRaises(j)
        \/ WorkerProgressDone(j)
        \/ WorkerExceptCommit(j)
        \/ WorkerExceptCommitRaises(j)
        \/ WorkerExceptUnbound(j)
        \/ WorkerProgressFailed(j)

Spec == Init /\ [][Next]_vars

\* --------------------------------------------- compute_dtw_alignment

\* Longest feature sequence (frames) of a DTW input.
MaxFrames == 3
\* Largest value of a one-feature frame (a relative pitch).
MaxPitch == 1

Abs(x) == IF x < 0 THEN -x ELSE x

Min(S) == CHOOSE x \in S : \A y \in S : x <= y

RECURSIVE SumUpTo(_, _)
SumUpTo(s, n) == IF n = 0 THEN 0 ELSE s[n] + SumUpTo(s, n - 1)

\* The sum of the elements of a sequence.
SumSeq(s) == SumUpTo(s, Len(s))

RECURSIVE TupleUpTo(_, _)
TupleUpTo(f, n) == IF n = 0 THEN <<>> ELSE Append(TupleUpTo(f, n - 1), f[n])

\* The sequence f with every element computed (once).
Tuple(f) == TupleUpTo(f, Len(f))

RECURSIVE SeqsUpTo(_, _)
\* The non-empty sequences over S of length at most n.
SeqsUpTo(S, n) ==
    IF n = 0 THEN {}
    ELSE SeqsUpTo(S, n - 1) \cup [1..n -> S]

\* cdist(X, Y, metric='euclidean') for frames of one feature (the melody
\* contour reshaped to 1 x T): C[i][j] = |X[i] - Y[j]|.
CdistEuclidean(X, Y) ==
    Tuple([i \in 1..Len(X) |-> Tuple([j \in 1..Len(Y) |-> Abs(X[i] - Y[j])])])

\* The step set of librosa.sequence.dtw (its default step_sizes_sigma), in
\* the order the accumulation tries the steps.
StepSizes == << <<1, 1>>, <<0, 1>>, <<1, 0>> >>

\* The steps that lead into cell (i, j) from inside the matrix.
StepsInto(i, j) ==
    {k \in 1..Len(StepSizes) :
        i - StepSizes[k][1] >= 1 /\ j - StepSizes[k][2] >= 1}

RECURSIVE AccumulatedUpTo(_, _)
\* The first k cells, in row-major order, of the accumulated cost matrix D of
\* librosa.sequence.dtw: D[1,1] = C[1][1] and every other cell adds its cost
\* to the cheapest predecessor.
AccumulatedUpTo(C, k) ==
    IF k = 0 THEN <<>>
    ELSE LET m == Len(C[1])
             i == ((k - 1) \div m) + 1
             j == ((k - 1) % m) + 1
             done == AccumulatedUpTo(C, k - 1)
         IN Append(done,
                IF k = 1 THEN C[1][1]
                ELSE C[i][j] +
                     Min({done[(i - StepSizes[s][1] - 1) * m + j - StepSizes[s][2]] :
                             s \in StepsInto(i, j)}))

\* The accumulated cost matrix as rows of cells.
AccumulatedCost(C) ==
    LET m == Len(C[1])
        flat == AccumulatedUpTo(C, Len(C) * m)
    IN Tuple([i \in 1..Len(C) |-> Tuple([j \in 1..m |-> flat[(i - 1) * m + j]])])

\* The step recorded for cell (i, j): a later step replaces the recorded one
\* only when it is strictly cheaper, so the first cheapest step is kept.
StepIndex(D, i, j) ==
    LET pred(k) == D[i - StepSizes[k][1]][j - StepSizes[k][2]]
    IN Min({k \in StepsInto(i, j) :
               \A l \in StepsInto(i, j) : pred(k) <= pred(l)})

RECURSIVE Backtrack(_, _, _)
\* The backtracking of librosa.sequence.dtw: it starts at the last cell,
\* follows the recorded steps until it reaches the first cell and returns
\* the points in the order it visited them (0-based frame indices).
Backtrack(D, i, j) ==
    IF i = 1 /\ j = 1 THEN << <<0, 0>> >>
    ELSE LET k == StepIndex(D, i, j)
         IN << <<i - 1, j - 1>> >> \o
            Backtrack(D, i - StepSizes[k][1], j - StepSizes[k][2])

\* librosa.sequence.dtw(C=C, backtrack=True) and the normalisation of line
\* 242; the distance D[-1,-1] / len(wp) is kept as the fraction <<num, den>>.
DtwOfCost(C) ==
    LET D == AccumulatedCost(C)
        wp == Backtrack(D, Len(C), Len(C[1]))
    IN [distance |-> <<D[Len(C)][Len(C[1])], Len(wp)>>, C |-> C, wp |-> wp]

Reverse(s) == [i \in 1..Len(s) |-> s[Len(s) + 1 - i]]

\* A variant that returns the path in forward order (wp[::-1]).
DtwOfCostForward(C) ==
    LET r == DtwOfCost(C) IN [r EXCEPT !.wp = Reverse(r.wp)]

\* A variant that normalises by the number of frames of the first sequence
\* instead of the path length.
DtwOfCostPerFrame(C) ==
    LET r == DtwOfCost(C) IN [r EXCEPT !.distance = <<r.distance[1], Len(C)>>]

\* MelodyAnalyzer.compute_dtw_alignment on a cost matrix C = cdist(X, Y).
compute_dtw_alignment(C) == DtwOfCost(C)

DtwInit ==
    /\ JobInit /\ ServicesIdle
    /\ phase = "dtw_input"
    /\ features1 \in SeqsUpTo(0..MaxPitch, MaxFrames)
    /\ features2 \in SeqsUpTo(0..MaxPitch, MaxFrames)
    /\ dtw_out = Null
    /\ ChromaIdle /\ ScoreIdle /\ LocalIdle /\ CompareIdle /\ ExtractIdle

\* compute_dtw_alignment(features1, features2, metric='euclidean'), as
\* compare_melody_contours calls it.
ComputeDtwAlignment ==
    /\ phase = "dtw_input"
    /\ dtw_out' = compute_dtw_alignment(CdistEuclidean(features1, features2))
    /\ phase' = "dtw_done"
    /\ UNCHANGED <<features1, features2, jobVars, chromaVars, scoreVars,
                   localVars, compareVars, extractVars,
                   serviceVars>>

NextDTW == ComputeDtwAlignment

SpecDTW == DtwInit /\ [][NextDTW]_vars

\* ------------------------- transpose_chroma and find_best_transposition

\* Number of pitch classes: the rows of a chroma matrix and the shifts tried.
NumPitchClasses == 12
\* Longest chroma matrix (frames) of a transposition input.
MaxChromaFrames == 2
\* Number of distinct chroma frames the inputs are built from.
MaxPalette == 2

Shifts == 0..(NumPitchClasses - 1)

\* The pitch-class sets of the frames the inputs are built from, the first
\* MaxPalette of them: single notes, a dominant seventh chord (norm 2, no
\* rotational symmetry) and a diminished seventh chord (norm 2, symmetric
\* under a shift of 3).
PitchSets == << {5}, {0, 4, 7, 10}, {0}, {0, 3, 6, 9}, {7}, {2} >>

FrameOf(S) == [r \in 1..NumPitchClasses |-> IF (r - 1) \in S THEN 1 ELSE 0]

Palette == {FrameOf(PitchSets[k]) : k \in 1..MaxPalette}

\* The chroma matrix (NumPitchClasses rows x T columns) with the given
\* frames as columns.
ChromaOf(frames) ==
    [r \in 1..NumPitchClasses |-> [t \in 1..Len(frames) |-> frames[t][r]]]

ChromaInputs == {ChromaOf(fs) : fs \in SeqsUpTo(Palette, MaxChromaFrames)}

\* features.T of lines 232-233: the frames (columns) of a feature matrix.
FramesOf(features) ==
    Tuple([t \in 1..Len(features[1]) |->
              Tuple([r \in 1..Len(features) |-> features[r][t]])])

\* A rotation that is off by one row: np.roll(chroma, semitones + 1, axis=0).
ShiftOffByOne(chroma, n) ==
    [r \in 1..NumPitchClasses |->
        chroma[((r - 2 - n) % NumPitchClasses) + 1]]

\* np.roll(chroma, semitones, axis=0): row r of the result is row
\* (r - semitones) mod 12 of the input; the input is not modified.
transpose_chroma(chroma, n) ==
    [r \in 1..NumPitchClasses |->
        chroma[((r - 1 - n) % NumPitchClasses) + 1]]

Dot(u, v) == SumSeq([k \in 1..Len(u) |-> u[k] * v[k]])

\* The Euclidean norm of a frame whose squared norm is a perfect square.
Norm(u) == LET d == Dot(u, u) IN CHOOSE n \in 0..d : n * n = d

RECURSIVE Product(_)
Product(S) ==
    IF S = {} THEN 1
    ELSE LET x == CHOOSE y \in S : TRUE IN x * Product(S \ {x})

\* Cosine distances are kept in fixed point, in units of 1 / CosineScale; the
\* scale makes every distance between frames of the palette an integer.
CosineScale == Product({Norm(f) : f \in Palette}) * Product({Norm(f) : f \in Palette})

\* cdist(X, Y, metric='cosine'): C[i][j] = 1 - X[i].Y[j] / (|X[i]| |Y[j]|),
\* in units of 1 / CosineScale.
CdistCosine(X, Y) ==
    LET normX == Tuple([i \in 1..Len(X) |-> Norm(X[i])])
        normY == Tuple([j \in 1..Len(Y) |-> Norm(Y[j])])
    IN Tuple([i \in 1..Len(X) |-> Tuple([j \in 1..Len(Y) |->
           CosineScale - (CosineScale * Dot(X[i], Y[j])) \div (normX[i] * normY[j])])])

\* -np.inf, the initial best_similarity.
NegInf == <<-1, 0>>

\* np.nan and np.inf: what a DTW distance is when the cost matrix holds an
\* undefined cosine distance (a frame of norm 0).
NaN == <<0, 0>>
PosInf == <<1, 0>>

\* a > b for fractions <<num, den>> with positive denominators, NegInf and
\* NaN; every comparison with NaN is false.
Gt(a, b) ==
    IF a = NaN \/ b = NaN THEN FALSE
    ELSE IF a = NegInf THEN FALSE
    ELSE IF b = NegInf THEN TRUE
    ELSE a[1] * b[2] > b[1] * a[2]

\* 1.0 / (1.0 + distance) for a distance <<num, den>> in units of 1 / scale.
Similarity(distance, scale) ==
    <<distance[2] * scale, distance[2] * scale + distance[1]>>

\* Lines 320-326: the similarity of chroma1 against chroma2 rotated by shift.
ShiftSimilarity(c1, c2, shift) ==
    LET chroma2_shifted == transpose_chroma(c2, shift)
        r == compute_dtw_alignment(
                 CdistCosine(FramesOf(c1), FramesOf(chroma2_shifted)))
    IN Similarity(r.distance, CosineScale)

RECURSIVE BestFrom(_, _, _, _, _)
\* The loop of lines 319-330 from `shift` on, with the best (shift,
\* similarity) so far; `strict` tells whether a later shift must be strictly
\* better to replace the best.
BestFrom(c1, c2, shift, bestSoFar, strict) ==
    IF shift = NumPitchClasses THEN bestSoFar
    ELSE LET similarity == ShiftSimilarity(c1, c2, shift)
             better == IF strict THEN Gt(similarity, bestSoFar[2])
                       ELSE ~Gt(bestSoFar[2], similarity)
         IN BestFrom(c1, c2, shift + 1,
                     IF better THEN <<shift, similarity>> ELSE bestSoFar,
                     strict)

\* A search that replaces the best on `>=`.
find_best_transposition_ge(c1, c2) == BestFrom(c1, c2, 0, <<0, NegInf>>, FALSE)

\* MelodyAnalyzer.find_best_transposition: (best_semitones, best_similarity).
find_best_transposition(c1, c2) == BestFrom(c1, c2, 0, <<0, NegInf>>, TRUE)

\* A chroma frame without energy in any pitch class (digital silence).
SilentFrame == FrameOf({})

\* The chroma matrices over the palette and the silent frame.
AllChromaInputs ==
    {ChromaOf(fs) : fs \in SeqsUpTo(Palette \cup {SilentFrame}, MaxChromaFrames)}

HasSilentFrame(chroma) ==
    \E t \in 1..Len(chroma[1]) : \A r \in 1..NumPitchClasses : chroma[r][t] = 0

\* Lines 236-242 when a frame of either input has norm 0: cdist gives NaN
\* for every pair with that frame, and librosa.sequence.dtw, depending on
\* its version, rejects the matrix (ParameterError) or accumulates it into
\* a distance of NaN or of infinity.  Rotating a matrix keeps its silent
\* frames, so the outcome is the same for every shift.
UndefinedDtwOutcomes == {"ParameterError", NaN, PosInf}

\* 1.0 / (1.0 + distance) in floating point, for a distance that may be NaN
\* or infinite.
SimilarityFloat(distance, scale) ==
    IF distance = NaN THEN NaN
    ELSE IF distance = PosInf THEN <<0, 1>>
    ELSE Similarity(distance, scale)

RECURSIVE BestOfDistance(_, _, _)
\* The loop of lines 319-330 from `shift` on, when compute_dtw_alignment
\* returns `distance` for every shift.
BestOfDistance(distance, shift, bestSoFar) ==
    IF shift = NumPitchClasses THEN bestSoFar
    ELSE LET similarity == SimilarityFloat(distance, CosineScale)
         IN BestOfDistance(distance, shift + 1,
                IF Gt(similarity, bestSoFar[2]) THEN <<shift, similarity>>
                ELSE bestSoFar)

\* Inputs of the round trip: one chroma matrix.  Inputs of the search: two
\* chroma matrices, the second one possibly the first one transposed up by
\* five semitones; or two chroma matrices of which at least one has a
\* silent frame.
ChromaInit ==
    /\ JobInit /\ ServicesIdle
    /\ DtwIdle /\ ScoreIdle /\ LocalIdle /\ CompareIdle /\ ExtractIdle
    /\ semitones = 0 /\ transposed = Null /\ restored = Null /\ best = Null
    /\ chroma1 \in AllChromaInputs
    /\ \/ phase = "transpose_input" /\ chroma1 \in ChromaInputs /\ chroma2 = <<>>
       \/ /\ phase = "search_input"
          /\ chroma1 \in ChromaInputs
          /\ chroma2 \in ChromaInputs \cup {transpose_chroma(chroma1, 5)}
       \/ /\ phase = "silent_input"
          /\ chroma2 \in AllChromaInputs
          /\ HasSilentFrame(chroma1) \/ HasSilentFrame(chroma2)

\* transpose_chroma(chroma1, s) for a shift s in 0..11.
TransposeChroma(s) ==
    /\ phase = "transpose_input"
    /\ semitones' = s
    /\ transposed' = transpose_chroma(chroma1, s)
    /\ phase' = "transposed"
    /\ UNCHANGED <<chroma1, chroma2, restored, best, jobVars, dtwVars, scoreVars, localVars,
                   compareVars, extractVars,
                   serviceVars>>

\* transpose_chroma(transposed, (12 - s) mod 12).
TransposeBack ==
    /\ phase = "transposed"
    /\ restored' = transpose_chroma(transposed,
                                    (NumPitchClasses - semitones) % NumPitchClasses)
    /\ phase' = "restored"
    /\ UNCHANGED <<chroma1, chroma2, semitones, transposed, best, jobVars,
                   dtwVars, scoreVars, localVars,
                   compareVars, extractVars,
                   serviceVars>>

\* find_best_transposition(chroma1, chroma2).
FindBestTransposition ==
    /\ phase = "search_input"
    /\ best' = find_best_transposition(chroma1, chroma2)
    /\ phase' = "found"
    /\ UNCHANGED <<chroma1, chroma2, semitones, transposed, restored, jobVars,
                   dtwVars, scoreVars, localVars,
                   compareVars, extractVars,
                   serviceVars>>

\* find_best_transposition(chroma1, chroma2) on inputs with a silent frame:
\* the first compute_dtw_alignment raises, or every shift's distance is the
\* same undefined value and the loop runs to its end.
FindBestTranspositionSilent(outcome) ==
    /\ phase = "silent_input"
    /\ dtw_out' = outcome
    /\ IF outcome = "ParameterError"
       THEN best' = best /\ phase' = "search_raised"
       ELSE /\ best' = BestOfDistance(outcome, 0, <<0, NegInf>>)
            /\ phase' = "found_undefined"
    /\ UNCHANGED <<chroma1, chroma2, semitones, transposed, restored, jobVars,
                   features1, features2, scoreVars, localVars, compareVars,
                   extractVars,
                   serviceVars>>

NextChroma ==
    \/ \E s \in Shifts : TransposeChroma(s)
    \/ TransposeBack
    \/ FindBestTransposition
    \/ \E outcome \in UndefinedDtwOutcomes : FindBestTranspositionSilent(outcome)

SpecChroma == ChromaInit /\ [][NextChroma]_vars

\* ------------------------------------------ compute_overall_similarity

\* Component similarities are drawn from the grid k / SimGrid, k in 0..SimGrid.
SimGrid == 4
\* Largest tempo of a track (beats per unit of time).
MaxTempo == 3

RECURSIVE Gcd(_, _)
Gcd(a, b) == IF b = 0 THEN a ELSE Gcd(b, a % b)

\* Real numbers are kept as exact fractions <<numerator, denominator>> with a
\* positive denominator, in lowest terms.
Frac(n, d) == LET g == Gcd(Abs(n), d) IN <<n \div g, d \div g>>

Zero == <<0, 1>>
One == <<1, 1>>

FracAdd(a, b) == Frac(a[1] * b[2] + b[1] * a[2], a[2] * b[2])
FracSub(a, b) == Frac(a[1] * b[2] - b[1] * a[2], a[2] * b[2])
FracMul(a, b) == Frac(a[1] * b[1], a[2] * b[2])
FracAbs(a) == <<Abs(a[1]), a[2]>>
\* 1 / a for a > 0.
FracInv(a) == Frac(a[2], a[1])
FracLe(a, b) == a[1] * b[2] <= b[1] * a[2]
FracLt(a, b) == a[1] * b[2] < b[1] * a[2]

\* A tempo weight that makes the weights sum to more than one.
TEMPO_WEIGHT_DOUBLED == <<2, 10>>

\* Lines 186-188.
CHROMA_WEIGHT == <<5, 10>>
MELODY_WEIGHT == <<4, 10>>
TEMPO_WEIGHT == <<1, 10>>

\* A threshold test that excludes the bound (percentage > bound).
Above(percentage, bound) == FracLt(<<bound, 1>>, percentage)

\* Lines 204-213: similarity_percentage >= bound.
AtLeast(percentage, bound) == FracLe(<<bound, 1>>, percentage)

\* Lines 203-218: the level and the verdict of a percentage.
LevelOf(percentage) ==
    IF AtLeast(percentage, 80) THEN
        [level |-> "Very High",
         verdict |-> "Highly similar - possible plagiarism or cover"]
    ELSE IF AtLeast(percentage, 60) THEN
        [level |-> "High", verdict |-> "Significant similarity detected"]
    ELSE IF AtLeast(percentage, 40) THEN
        [level |-> "Moderate", verdict |-> "Some similarities found"]
    ELSE IF AtLeast(percentage, 20) THEN
        [level |-> "Low", verdict |-> "Minor similarities only"]
    ELSE
        [level |-> "Very Low", verdict |-> "No significant similarity"]

\* SimilarityComparator.compute_overall_similarity, in exact arithmetic.
compute_overall_similarity(chroma_sim, melody_sim, ratio) ==
    LET tempo_similarity ==
            FracInv(FracAdd(One, FracAbs(FracSub(ratio, One))))
        overall_score ==
            FracAdd(FracAdd(FracMul(CHROMA_WEIGHT, chroma_sim),
                            FracMul(MELODY_WEIGHT, melody_sim)),
                    FracMul(TEMPO_WEIGHT, tempo_similarity))
        similarity_percentage == FracMul(overall_score, <<100, 1>>)
        l == LevelOf(similarity_percentage)
    IN [overall_similarity_score |-> overall_score,
        similarity_percentage |-> similarity_percentage,
        similarity_level |-> l.level,
        verdict |-> l.verdict,
        component_scores |-> [chroma_harmony |-> chroma_sim,
                              melody_contour |-> melody_sim,
                              tempo |-> tempo_similarity],
        weights |-> [chroma_harmony |-> CHROMA_WEIGHT,
                     melody_contour |-> MELODY_WEIGHT,
                     tempo |-> TEMPO_WEIGHT]]

\* The similarities k / SimGrid of [0, 1].
GridSimilarities == {Frac(k, SimGrid) : k \in 0..SimGrid}

\* The tempo ratios a / b >= 0 of two tempos up to MaxTempo.
TempoRatios == {Frac(a, b) : a \in 0..MaxTempo, b \in 1..MaxTempo}

ScoreInit ==
    /\ JobInit /\ ServicesIdle
    /\ phase = "score_input"
    /\ DtwIdle /\ ChromaIdle /\ LocalIdle /\ CompareIdle /\ ExtractIdle
    /\ chroma_similarity \in GridSimilarities
    /\ melody_similarity \in GridSimilarities
    /\ tempo_ratio \in TempoRatios
    /\ overall_result = Null

\* compute_overall_similarity(chroma_similarity, melody_similarity,
\* tempo_ratio).
ComputeOverallSimilarity ==
    /\ phase = "score_input"
    /\ overall_result' = compute_overall_similarity(
                             chroma_similarity, melody_similarity, tempo_ratio)
    /\ phase' = "scored"
    /\ UNCHANGED <<chroma_similarity, melody_similarity, tempo_ratio, jobVars,
                   dtwVars, chromaVars, localVars, compareVars, extractVars,
                   serviceVars>>

NextScore == ComputeOverallSimilarity

SpecScore == ScoreInit /\ [][NextScore]_vars

\* --------------------- compute_local_alignment and find_similar_segments

\* Longest feature sequence (frames) of the first track behind a cost matrix
\* of the detector; the second track has up to MaxFrames frames.
MaxLocalFrames == 5
\* Largest window size (frames) of the detector.
MaxWindow == 3

\* MelodyAnalyzer.hop_length and SimilarityComparator.sample_rate.
HopLength == 512
SampleRate == 22050

\* range(0, stop, step) as a sequence.
RangeFromZero(stop, step) ==
    IF stop <= 0 THEN <<>>
    ELSE [k \in 1..((stop + step - 1) \div step) |-> (k - 1) * step]

RECURSIVE FracSum(_, _)
\* The sum of the first n elements of a sequence of fractions.
FracSum(s, n) == IF n = 0 THEN Zero ELSE FracAdd(FracSum(s, n - 1), s[n])

\* The largest of a non-empty set of fractions.
FracMax(S) == CHOOSE x \in S : \A y \in S : FracLe(y, x)

\* Line 259 and lines 269-271: the cells of similarity[i:i+w, j:j+w] with
\* similarity = 1 / (1 + C), for 0-based i and j, row by row.
WindowCells(C, i, j, w) ==
    [k \in 1..(w * w) |->
        Frac(1, 1 + C[i + ((k - 1) \div w) + 1][j + ((k - 1) % w) + 1])]

\* np.mean(window) and np.max(window).
WindowMean(C, i, j, w) ==
    LET cells == WindowCells(C, i, j, w)
    IN FracMul(FracSum(cells, w * w), <<1, w * w>>)

\* The smallest of a non-empty set of fractions.
FracMin(S) == CHOOSE x \in S : \A y \in S : FracLe(x, y)

\* A detector that reports the minimum of the window as max_similarity.
WindowMin(C, i, j, w) ==
    LET cells == WindowCells(C, i, j, w)
    IN FracMin({cells[k] : k \in 1..(w * w)})

WindowMax(C, i, j, w) ==
    LET cells == WindowCells(C, i, j, w)
    IN FracMax({cells[k] : k \in 1..(w * w)})

\* Lines 267-281: one dictionary per window position of the two loops, in
\* the order the loops visit them.
EvaluatedRegions(C, w) ==
    LET stride == w \div 2
        is == RangeFromZero(Len(C) - w, stride)
        js == RangeFromZero(Len(C[1]) - w, stride)
    IN Tuple([k \in 1..(Len(is) * Len(js)) |->
           LET i == is[((k - 1) \div Len(js)) + 1]
               j == js[((k - 1) % Len(js)) + 1]
           IN [track1_start_frame |-> i,
               track1_end_frame |-> i + w,
               track2_start_frame |-> j,
               track2_end_frame |-> j + w,
               similarity_score |-> WindowMean(C, i, j, w),
               max_similarity |-> WindowMax(C, i, j, w)]])

\* The regions in the order they were appended.
Unsorted(regions) == regions

RECURSIVE SortedByScore(_)
\* sorted(regions, key=similarity_score, reverse=True): a stable sort, so
\* regions of equal score keep the order in which they were appended.
SortedByScore(regions) ==
    IF regions = <<>> THEN <<>>
    ELSE LET n == Len(regions)
             last == regions[n]
             front == SortedByScore(SubSeq(regions, 1, n - 1))
             \* the elements of front that stay before `last`
             before == Cardinality({k \in 1..(n - 1) :
                          FracLe(last.similarity_score, front[k].similarity_score)})
         IN SubSeq(front, 1, before) \o <<last>> \o SubSeq(front, before + 1, n - 1)

\* MelodyAnalyzer.compute_local_alignment(C, window_size).
compute_local_alignment(C, w) ==
    LET Similar(region) == FracLt(<<7, 10>>, region.similarity_score)
    IN SortedByScore(SelectSeq(EvaluatedRegions(C, w), Similar))

\* librosa.frames_to_time(frame, sr, hop_length): frame * hop_length / sr.
frames_to_time(frame, sr, hop_length) == Frac(frame * hop_length, sr)

\* A filter that drops the regions whose score equals the threshold.
ScoreAbove(region, t) == FracLt(t, region.similarity_score)

\* Line 167: r['similarity_score'] >= threshold.
ScoreAtLeast(region, t) == FracLe(t, region.similarity_score)

\* The default of find_similar_segments' threshold parameter (line 125) and
\* the threshold compare_tracks passes (line 278).
DefaultThreshold == <<7, 10>>
CompareTracksThreshold == <<65, 100>>

\* SimilarityComparator.find_similar_segments(cost_matrix, hop_length,
\* sample_rate, window_frames, threshold).
find_similar_segments(C, hop_length, sample_rate, window_frames, t) ==
    LET regions == compute_local_alignment(C, window_frames)
        timed == [k \in 1..Len(regions) |->
            LET region == regions[k]
                time(frame) == frames_to_time(frame, sample_rate, hop_length)
            IN [track1_start_frame |-> region.track1_start_frame,
                track1_end_frame |-> region.track1_end_frame,
                track2_start_frame |-> region.track2_start_frame,
                track2_end_frame |-> region.track2_end_frame,
                similarity_score |-> region.similarity_score,
                max_similarity |-> region.max_similarity,
                track1_start_time |-> time(region.track1_start_frame),
                track1_end_time |-> time(region.track1_end_frame),
                track2_start_time |-> time(region.track2_start_frame),
                track2_end_time |-> time(region.track2_end_frame)]]
        Reported(region) == ScoreAtLeast(region, t)
    IN SelectSeq(timed, Reported)

\* The feature values behind the cost matrices of the detector: two
\* distinct frames, at distance 0 from themselves and 1 from each other.
LocalFrames == {0, 1}

\* The thresholds a caller supplies.
SuppliedThresholds ==
    {CompareTracksThreshold, <<7, 10>>, <<3, 4>>, <<4, 5>>}

\* Window sizes from 2 on: stride = window_size // 2 is the step of the two
\* range() loops, and range() rejects a step of 0.
WindowSizes == 2..MaxWindow

LocalInit ==
    /\ JobInit /\ ServicesIdle
    /\ phase = "local_input"
    /\ DtwIdle /\ ChromaIdle /\ ScoreIdle /\ CompareIdle /\ ExtractIdle
    /\ cost_matrix \in {CdistEuclidean(X, Y) :
                           X \in SeqsUpTo(LocalFrames, MaxLocalFrames),
                           Y \in SeqsUpTo(LocalFrames, MaxFrames)}
    /\ window_size \in WindowSizes
    /\ threshold = Null
    /\ local_regions = <<>> /\ similar_segments = <<>>

\* analyzer.compute_local_alignment(cost_matrix, window_size=window_size).
ComputeLocalAlignment ==
    /\ phase = "local_input"
    /\ local_regions' = compute_local_alignment(cost_matrix, window_size)
    /\ phase' = "local_done"
    /\ UNCHANGED <<cost_matrix, window_size, threshold, similar_segments,
                   jobVars, dtwVars, chromaVars, scoreVars, compareVars,
                   extractVars,
                   serviceVars>>

\* comparator.find_similar_segments(cost_matrix, hop_length, sample_rate,
\* window_frames=window_size) without a threshold: the parameter takes its
\* default.
FindSimilarSegmentsDefault ==
    /\ phase = "local_input"
    /\ threshold' = [supplied |-> FALSE, value |-> DefaultThreshold]
    /\ similar_segments' = find_similar_segments(
           cost_matrix, HopLength, SampleRate, window_size, DefaultThreshold)
    /\ phase' = "segments_done"
    /\ UNCHANGED <<cost_matrix, window_size, local_regions, jobVars, dtwVars,
                   chromaVars, scoreVars, compareVars, extractVars,
                   serviceVars>>

\* comparator.find_similar_segments(..., threshold=t).
FindSimilarSegments(t) ==
    /\ phase = "local_input"
    /\ threshold' = [supplied |-> TRUE, value |-> t]
    /\ similar_segments' = find_similar_segments(
           cost_matrix, HopLength, SampleRate, window_size, t)
    /\ phase' = "segments_done"
    /\ UNCHANGED <<cost_matrix, window_size, local_regions, jobVars, dtwVars,
                   chromaVars, scoreVars, compareVars, extractVars,
                   serviceVars>>

NextLocal ==
    \/ ComputeLocalAlignment
    \/ FindSimilarSegmentsDefault
    \/ \E t \in SuppliedThresholds : FindSimilarSegments(t)

SpecLocal == LocalInit /\ [][NextLocal]_vars

\* ------------------------------------- SimilarityComparator.compare_tracks

\* The melody note (f0 in Hz; 0 = unvoiced) of the frames the tracks are
\* built from: A4, none, A3, none, A5, A2, for the frames of PitchSets.
FrameF0 == <<440, 0, 220, 0, 880, 110>>

\* librosa.hz_to_midi, 12 * log2(f / 440) + 69, on the notes of FrameF0.
hz_to_midi(f) ==
    CASE f = 440 -> 69
      [] f = 220 -> 57
      [] f = 880 -> 81
      [] f = 110 -> 45

\* MelodyAnalyzer.convert_f0_to_midi: frames below 50 Hz are set to 0.
convert_f0_to_midi(f0_hz) ==
    [k \in 1..Len(f0_hz) |-> IF f0_hz[k] < 50 THEN 0 ELSE hz_to_midi(f0_hz[k])]

\* The voiced flags of a contour: pyin reports f0 = NaN exactly on the
\* unvoiced frames and extract_melody_contour turns NaN into 0.
VoicedFlags(f0_hz) == [k \in 1..Len(f0_hz) |-> f0_hz[k] > 0]

\* The k-th smallest element of a non-empty sequence.
KthSmallest(s, k) ==
    CHOOSE v \in {s[i] : i \in 1..Len(s)} :
        /\ Cardinality({i \in 1..Len(s) : s[i] < v}) < k
        /\ Cardinality({i \in 1..Len(s) : s[i] <= v}) >= k

\* normalize_melody of compare_melody_contours, in half semitones: twice
\* (midi - median of the voiced frames), 0 on the unvoiced frames; a contour
\* without a voiced frame is returned as it is.  np.median of an even number
\* of values is the mean of the two middle ones.
normalize_melody(midi, voiced) ==
    LET IsVoiced(k) == voiced[k]
        idx == SelectSeq([k \in 1..Len(midi) |-> k], IsVoiced)
        voiced_midi == [k \in 1..Len(idx) |-> midi[idx[k]]]
        n == Len(voiced_midi)
    IN IF n > 0
       THEN LET twice_median == KthSmallest(voiced_midi, (n + 1) \div 2)
                                + KthSmallest(voiced_midi, (n \div 2) + 1)
            IN [k \in 1..Len(midi) |->
                   IF voiced[k] THEN 2 * midi[k] - twice_median ELSE 0]
       ELSE [k \in 1..Len(midi) |-> 2 * midi[k]]

\* SimilarityComparator.compare_melody_contours; the DTW distance is the
\* fraction <<num, den>> in semitones.
compare_melody_contours(f0a, f0b, voiced_a, voiced_b) ==
    LET midi_1_norm == normalize_melody(convert_f0_to_midi(f0a), voiced_a)
        midi_2_norm == normalize_melody(convert_f0_to_midi(f0b), voiced_b)
        r == compute_dtw_alignment(
                 CdistEuclidean(Tuple(midi_1_norm), Tuple(midi_2_norm)))
        s == Similarity(r.distance, 2)
    IN [melody_similarity |-> Frac(s[1], s[2]),
        melody_dtw_distance |-> Frac(r.distance[1], 2 * r.distance[2])]

\* A comparison that aligns chroma1 against chroma2 as it is, without
\* applying the best transposition.
compare_chroma_untransposed(c1, c2) ==
    LET b == find_best_transposition(c1, c2)
        r == compute_dtw_alignment(CdistCosine(FramesOf(c1), FramesOf(c2)))
    IN [best_transposition_semitones |-> b[1],
        similarity_score |-> Frac(b[2][1], b[2][2]),
        dtw_distance |-> r.distance,
        cost_matrix |-> r.C,
        dtw_path |-> r.wp]

\* SimilarityComparator.compare_chroma_with_transposition; the DTW distance
\* is in units of 1 / CosineScale.
compare_chroma_with_transposition(c1, c2) ==
    LET b == find_best_transposition(c1, c2)
        chroma2_aligned == transpose_chroma(c2, b[1])
        r == compute_dtw_alignment(
                 CdistCosine(FramesOf(c1), FramesOf(chroma2_aligned)))
    IN [best_transposition_semitones |-> b[1],
        similarity_score |-> Frac(b[2][1], b[2][2]),
        dtw_distance |-> r.distance,
        cost_matrix |-> r.C,
        dtw_path |-> r.wp]

\* The outcome of a division by zero.
DivisionError == <<0, 0>>

\* a / b.
Divide(a, b) == IF b = 0 THEN DivisionError ELSE Frac(a, b)

\* A tempo ratio computed without looking at the second tempo.
TempoRatioUnguarded(t1, t2) == Divide(t1, t2)

\* Line 282: features1['tempo'] / features2['tempo'] if
\* features2['tempo'] > 0 else 1.0.
TempoRatio(t1, t2) == IF t2 > 0 THEN Divide(t1, t2) ELSE One

\* The window compare_tracks passes to find_similar_segments (line 277).
WindowFrames == 50

\* The tracks: up to MaxChromaFrames frames, each one of the first
\* MaxPalette frames of PitchSets with its melody note.
TrackFrames == SeqsUpTo(1..MaxPalette, MaxChromaFrames)

TrackChroma(t) == ChromaOf([k \in 1..Len(t) |-> FrameOf(PitchSets[t[k]])])
TrackF0(t) == [k \in 1..Len(t) |-> FrameF0[t[k]]]

\* features1 and features2 as load_and_extract_features returns them (lines
\* 253-264); the tempo is drawn when line 282 reads it.
CompareInit ==
    /\ JobInit /\ ServicesIdle
    /\ phase = "compare_input"
    /\ DtwIdle /\ ScoreIdle /\ LocalIdle /\ ExtractIdle
    /\ semitones = 0 /\ transposed = Null /\ restored = Null /\ best = Null
    /\ \E t1 \in TrackFrames, t2 \in TrackFrames :
           /\ chroma1 = TrackChroma(t1) /\ chroma2 = TrackChroma(t2)
           /\ f0_1 = TrackF0(t1) /\ f0_2 = TrackF0(t2)
    /\ tempo1 = 0 /\ tempo2 = 0
    /\ chroma_result = Null /\ melody_result = Null

\* Lines 266-267.
CompareChroma ==
    /\ phase = "compare_input"
    /\ chroma_result' = compare_chroma_with_transposition(chroma1, chroma2)
    /\ phase' = "chroma_compared"
    /\ UNCHANGED <<f0_1, f0_2, tempo1, tempo2, melody_result, jobVars, dtwVars,
                   chromaVars, scoreVars, localVars, extractVars,
                   serviceVars>>

\* Lines 269-270.
CompareMelody ==
    /\ phase = "chroma_compared"
    /\ melody_result' = compare_melody_contours(
                            f0_1, f0_2, VoicedFlags(f0_1), VoicedFlags(f0_2))
    /\ phase' = "melody_compared"
    /\ UNCHANGED <<f0_1, f0_2, tempo1, tempo2, chroma_result, jobVars, dtwVars,
                   chromaVars, scoreVars, localVars, extractVars,
                   serviceVars>>

\* Lines 272-279.
CompareSegments ==
    /\ phase = "melody_compared"
    /\ similar_segments' = find_similar_segments(
           chroma_result.cost_matrix, HopLength, SampleRate, WindowFrames,
           CompareTracksThreshold)
    /\ phase' = "segments_found"
    /\ UNCHANGED <<cost_matrix, window_size, threshold, local_regions,
                   compareVars, jobVars, dtwVars, chromaVars, scoreVars,
                   extractVars,
                   serviceVars>>

\* Lines 281-282, for the tempos t1 and t2 of the two tracks.
CompareTempo(t1, t2) ==
    /\ phase = "segments_found"
    /\ tempo1' = t1 /\ tempo2' = t2
    /\ tempo_ratio' = TempoRatio(t1, t2)
    /\ phase' = "tempo_compared"
    /\ UNCHANGED <<f0_1, f0_2, chroma_result, melody_result, chroma_similarity,
                   melody_similarity, overall_result, jobVars, dtwVars,
                   chromaVars, localVars, extractVars,
                   serviceVars>>

\* Lines 284-289.
CompareOverall ==
    /\ phase = "tempo_compared"
    /\ overall_result' = compute_overall_similarity(
           chroma_result.similarity_score, melody_result.melody_similarity,
           tempo_ratio)
    /\ phase' = "compared"
    /\ UNCHANGED <<chroma_similarity, melody_similarity, tempo_ratio,
                   compareVars, jobVars, dtwVars, chromaVars, localVars,
                   extractVars,
                   serviceVars>>

NextCompare ==
    \/ CompareChroma
    \/ CompareMelody
    \/ CompareSegments
    \/ \E t1 \in 0..MaxTempo, t2 \in 0..MaxTempo : CompareTempo(t1, t2)
    \/ CompareOverall

SpecCompare == CompareInit /\ [][NextCompare]_vars

\* ------------------------------------ AudioAnalyzer.extract_all_features

\* Number of calls of extract_all_features.
MaxCalls == 3

\* What an audio path can point at: no file, a file librosa.load cannot
\* decode, a decodable audio file.
AudioFiles == {"missing", "unreadable", "audio"}

\* The statements of the try block after load_audio (lines 227-279), in
\* order: normalize_audio, get_duration, extract_mfcc, extract_chroma,
\* extract_spectral_features, extract_tempo, extract_rms_energy,
\* compute_fingerprint and the construction of the features dictionary.
ExtractStages == <<"normalize", "duration", "mfcc", "chroma", "spectral",
                   "tempo", "rms", "fingerprint", "statistics">>

StageAfter(stage) ==
    LET k == CHOOSE i \in 1..Len(ExtractStages) : ExtractStages[i] = stage
    IN IF k = Len(ExtractStages) THEN "returned" ELSE ExtractStages[k + 1]

\* No exception.
NoError == [type |-> "none", message |-> "none"]

\* load_audio, line 49: the file does not exist.
FileNotFound ==
    [type |-> "FileNotFoundError", message |-> "Audio file not found"]

\* load_audio, lines 55-56: librosa.load raised.
LoadFailed == [type |-> "Exception", message |-> "Failed to load audio"]

\* An exception raised by one of the feature computations (librosa, numpy).
ComputationFailed(stage) == [type |-> "ParameterError", message |-> stage]

\* Lines 281-282: every exception of the try block, load_audio's included,
\* is replaced by a plain Exception whose message quotes the original.
FeatureExtractionFailed(e) ==
    [type |-> "Exception",
     message |-> "Feature extraction failed: " \o e.message]

ExtractInit ==
    /\ JobInit /\ ServicesIdle
    /\ phase = "extract"
    /\ DtwIdle /\ ChromaIdle /\ ScoreIdle /\ LocalIdle /\ CompareIdle
    /\ epc = "idle" /\ audio_file = Null
    /\ extract_error = NoError /\ error_log = {} /\ calls = 0

\* A caller calls extract_all_features(audio_path).
ExtractCall(f) ==
    /\ epc \in {"idle", "returned", "raised"}
    /\ calls < MaxCalls
    /\ calls' = calls + 1
    /\ audio_file' = f
    /\ extract_error' = NoError
    /\ epc' = "load"
    /\ UNCHANGED <<error_log, phase, jobVars, dtwVars, chromaVars, scoreVars,
                   localVars, compareVars,
                   serviceVars>>

\* The exception e, raised for the given cause, leaves extract_all_features.
ExtractRaise(cause, e) ==
    /\ extract_error' = FeatureExtractionFailed(e)
    /\ error_log' = error_log \cup {<<cause, FeatureExtractionFailed(e).type>>}
    /\ epc' = "raised"
    /\ UNCHANGED <<audio_file, calls, phase, jobVars, dtwVars, chromaVars,
                   scoreVars, localVars, compareVars,
                   serviceVars>>

\* Line 226 with lines 48-49.
LoadAudioMissing ==
    /\ epc = "load" /\ audio_file = "missing"
    /\ ExtractRaise("missing", FileNotFound)

\* Line 226 with lines 51-56.
LoadAudioUnreadable ==
    /\ epc = "load" /\ audio_file = "unreadable"
    /\ ExtractRaise("unreadable", LoadFailed)

\* Line 226: the audio is decoded.
LoadAudio ==
    /\ epc = "load" /\ audio_file = "audio"
    /\ epc' = ExtractStages[1]
    /\ UNCHANGED <<audio_file, extract_error, error_log, calls, phase, jobVars,
                   dtwVars, chromaVars, scoreVars, localVars, compareVars,
                   serviceVars>>

\* One statement of lines 227-279 completes; after the last one the
\* features are returned.
ExtractStage ==
    /\ \E i \in 1..Len(ExtractStages) : epc = ExtractStages[i]
    /\ epc' = StageAfter(epc)
    /\ UNCHANGED <<audio_file, extract_error, error_log, calls, phase, jobVars,
                   dtwVars, chromaVars, scoreVars, localVars, compareVars,
                   serviceVars>>

\* One statement of lines 227-279 raises.
ExtractStageRaises ==
    /\ \E i \in 1..Len(ExtractStages) : epc = ExtractStages[i]
    /\ ExtractRaise("computation", ComputationFailed(epc))

NextExtract ==
    \/ \E f \in AudioFiles : ExtractCall(f)
    \/ LoadAudioMissing
    \/ LoadAudioUnreadable
    \/ LoadAudio
    \/ ExtractStage
    \/ ExtractStageRaises

SpecExtract == ExtractInit /\ [][NextExtract]_vars

\* ------------------------------------------- MusicIdentifier.identify

\* Largest number of recordings the AcoustID lookup yields.
MaxRows == 3
\* Largest max_results a caller passes.
MaxResultsLimit == 2

\* The exceptions acoustid.match and the iteration over its results raise:
\* the three the handlers of lines 119-136 name, and any other Exception.
IdentifyErrors == {"NoBackendError", "FingerprintGenerationError",
                   "WebServiceError", "Exception"}

\* The inputs of one call: whether audio_path exists, the number of
\* recordings the lookup yields, the error it raises (or "none") after
\* having yielded `after` of them, and max_results.
IdentifyInputs ==
    {[file |-> f, rows |-> r, error |-> e, after |-> k, max_results |-> m] :
        f \in {"missing", "present"}, r \in 0..MaxRows,
        e \in IdentifyErrors \cup {"none"}, k \in 0..MaxRows,
        m \in 0..MaxResultsLimit}

\* The dictionary identify returns.
IdentifyResult(success, found, error) ==
    [success |-> success, matches |-> found, error |-> error]

\* Handlers that name the three acoustid errors only: any other exception
\* leaves identify.
CaughtIfAcoustid(e) ==
    e \in {"NoBackendError", "FingerprintGenerationError", "WebServiceError"}

\* Lines 119-137: the except clauses end with `except Exception`, so every
\* exception raised inside the try block is caught.
Caught(e) == TRUE

\* Lines 119-142: the dictionary the except clauses return for an exception
\* of type e raised inside the try block.
Handle(e) ==
    CASE e = "NoBackendError" ->
             IdentifyResult(FALSE, <<>>, "Chromaprint library/tool not found")
      [] e = "FingerprintGenerationError" ->
             IdentifyResult(FALSE, <<>>, "Could not generate fingerprint")
      [] e = "WebServiceError" ->
             IdentifyResult(FALSE, <<>>, "Web service request failed")
      [] OTHER ->
             IdentifyResult(FALSE, <<>>, "Unexpected error during identification")

IdentifyInit ==
    /\ JobInit /\ RenderIdle /\ UploadIdle /\ AnalyzeIdle
    /\ phase = "identify"
    /\ DtwIdle /\ ChromaIdle /\ ScoreIdle /\ LocalIdle /\ CompareIdle
    /\ ExtractIdle
    /\ IdentifyIdle

identifyFrame == <<jobVars, pureVars, renderVars, uploadVars, analyzeVars>>

\* A caller calls identify(audio_path, max_results).
IdentifyCall(input) ==
    /\ ipc = "idle"
    /\ id_input' = input
    /\ ipc' = "exists"
    /\ UNCHANGED <<matches, id_result, identifyFrame>>

\* Lines 79-84: the file does not exist.
IdentifyFileMissing ==
    /\ ipc = "exists" /\ id_input.file = "missing"
    /\ id_result' = IdentifyResult(FALSE, <<>>, "Audio file not found")
    /\ ipc' = "returned"
    /\ UNCHANGED <<id_input, matches, identifyFrame>>

\* Line 79: the file exists; the try block is entered.
IdentifyFileExists ==
    /\ ipc = "exists" /\ id_input.file = "present"
    /\ ipc' = "match"
    /\ UNCHANGED <<id_input, matches, id_result, identifyFrame>>

\* The exception e, raised inside the try block, reaches the except clauses:
\* identify returns their dictionary, or the exception leaves identify.
IdentifyRaise(e) ==
    /\ IF Caught(e)
       THEN id_result' = Handle(e) /\ ipc' = "returned"
       ELSE id_result' = id_result /\ ipc' = "raised"
    /\ UNCHANGED <<id_input, matches, identifyFrame>>

\* Line 88: acoustid.match fingerprints the file and looks it up; it raises
\* when the input says so before any recording.
IdentifyMatchRaises ==
    /\ ipc = "match"
    /\ id_input.error # "none" /\ id_input.after = 0
    /\ IdentifyRaise(id_input.error)

\* Lines 88-91.
IdentifyMatch ==
    /\ ipc = "match"
    /\ ~(id_input.error # "none" /\ id_input.after = 0)
    /\ matches' = <<>>
    /\ ipc' = "loop"
    /\ UNCHANGED <<id_input, id_result, identifyFrame>>

\* The number of recordings the loop has consumed: one per match appended.
Consumed == Len(matches)

\* Lines 93-104: the next recording is appended; count is Len(matches).
IdentifyAppend ==
    /\ ipc = "loop"
    /\ Consumed < id_input.rows
    /\ ~(id_input.error # "none" /\ id_input.after = Consumed)
    /\ Len(matches) < id_input.max_results
    /\ matches' = Append(matches, Consumed + 1)
    /\ UNCHANGED <<ipc, id_input, id_result, identifyFrame>>

\* Line 93: the results generator raises while the loop asks for the next
\* recording.
IdentifyLoopRaises ==
    /\ ipc = "loop"
    /\ id_input.error # "none" /\ id_input.after = Consumed
    /\ Consumed <= id_input.rows
    /\ IdentifyRaise(id_input.error)

\* Lines 94-95 and 106-117: the loop ends, by exhaustion or by the break,
\* and the dictionary is returned.
IdentifyReturn ==
    /\ ipc = "loop"
    /\ ~(id_input.error # "none" /\ id_input.after = Consumed)
    /\ Consumed = id_input.rows \/ Len(matches) >= id_input.max_results
    /\ id_result' = IF matches = <<>>
                    THEN IdentifyResult(FALSE, <<>>, "No matches found for this audio")
                    ELSE IdentifyResult(TRUE, matches, Null)
    /\ ipc' = "returned"
    /\ UNCHANGED <<id_input, matches, identifyFrame>>

NextIdentify ==
    \/ \E input \in IdentifyInputs : IdentifyCall(input)
    \/ IdentifyFileMissing
    \/ IdentifyFileExists
    \/ IdentifyMatchRaises
    \/ IdentifyMatch
    \/ IdentifyAppend
    \/ IdentifyLoopRaises
    \/ IdentifyReturn

SpecIdentify == IdentifyInit /\ [][NextIdentify]_vars

\* ------------------------------------------------------- create_track

\* Number of upload requests, and of distinct file contents uploaded.
MaxUploads == 3
MaxContents == 2

Uploads == 1..MaxUploads

\* SHA-256 checksums of the file contents.
Checksums == 1..MaxContents

\* The row create_track inserts for upload u: the id stands for the
\* server-generated uuid.
TrackRow(u) == [id |-> u, checksum_sha256 |-> checksum[u]]

\* The rows of the tracks table with the given checksum.
WithChecksum(c) == {t \in tracks : t.checksum_sha256 = c}

\* No track found by the query.
NoTrack == 0

UploadInit ==
    /\ JobInit /\ RenderIdle /\ AnalyzeIdle /\ IdentifyIdle
    /\ phase = "upload"
    /\ DtwIdle /\ ChromaIdle /\ ScoreIdle /\ LocalIdle /\ CompareIdle
    /\ ExtractIdle
    /\ tracks = {}
    /\ upc = [u \in Uploads |-> "idle"]
    /\ checksum = [u \in Uploads |-> 0]
    /\ existing = [u \in Uploads |-> NoTrack]
    /\ upload_response = [u \in Uploads |-> [code |-> 0, track |-> NoTrack]]

uploadFrame == <<jobVars, pureVars, renderVars, analyzeVars, identifyVars>>

\* Lines 142-146: the request carries no file, or a file without a name.
CreateTrackBadRequest(u) ==
    /\ upc[u] = "idle"
    /\ upload_response' = [upload_response EXCEPT ![u] =
                              [code |-> 400, track |-> NoTrack]]
    /\ upc' = [upc EXCEPT ![u] = "returned"]
    /\ UNCHANGED <<tracks, checksum, existing, uploadFrame>>

\* Lines 148-161: the file is read and its checksum computed.
CreateTrackRead(u, c) ==
    /\ upc[u] = "idle"
    /\ checksum' = [checksum EXCEPT ![u] = c]
    /\ upc' = [upc EXCEPT ![u] = "query"]
    /\ UNCHANGED <<tracks, existing, upload_response, uploadFrame>>

\* Line 163: the first committed track with this checksum, if any.
CreateTrackQuery(u) ==
    /\ upc[u] = "query"
    /\ \/ /\ WithChecksum(checksum[u]) = {}
          /\ existing' = [existing EXCEPT ![u] = NoTrack]
       \/ \E t \in WithChecksum(checksum[u]) :
              existing' = [existing EXCEPT ![u] = t.id]
    /\ upc' = [upc EXCEPT ![u] = "found"]
    /\ UNCHANGED <<tracks, checksum, upload_response, uploadFrame>>

\* Lines 164-165.
CreateTrackReturnExisting(u) ==
    /\ upc[u] = "found"
    /\ existing[u] # NoTrack
    /\ upload_response' = [upload_response EXCEPT ![u] =
                              [code |-> 200, track |-> existing[u]]]
    /\ upc' = [upc EXCEPT ![u] = "returned"]
    /\ UNCHANGED <<tracks, checksum, existing, uploadFrame>>

\* models.py line 28, unique=True: the insert of a row is rejected when a
\* committed row has the same checksum_sha256.
UniqueChecksumViolation(row) == WithChecksum(row.checksum_sha256) # {}

\* Lines 168-179: the row is inserted and committed.
CreateTrackCommit(u) ==
    /\ upc[u] = "found"
    /\ existing[u] = NoTrack
    /\ ~UniqueChecksumViolation(TrackRow(u))
    /\ tracks' = tracks \cup {TrackRow(u)}
    /\ upload_response' = [upload_response EXCEPT ![u] =
                              [code |-> 201, track |-> u]]
    /\ upc' = [upc EXCEPT ![u] = "returned"]
    /\ UNCHANGED <<checksum, existing, uploadFrame>>

\* Line 177: the commit raises IntegrityError; create_track has no except
\* clause, so the error leaves the handler and the request ends in 500.
CreateTrackCommitRejected(u) ==
    /\ upc[u] = "found"
    /\ existing[u] = NoTrack
    /\ UniqueChecksumViolation(TrackRow(u))
    /\ upload_response' = [upload_response EXCEPT ![u] =
                              [code |-> 500, track |-> NoTrack]]
    /\ upc' = [upc EXCEPT ![u] = "returned"]
    /\ UNCHANGED <<tracks, checksum, existing, uploadFrame>>

NextUpload ==
    \E u \in Uploads :
        \/ CreateTrackBadRequest(u)
        \/ \E c \in Checksums : CreateTrackRead(u, c)
        \/ CreateTrackQuery(u)
        \/ CreateTrackReturnExisting(u)
        \/ CreateTrackCommit(u)
        \/ CreateTrackCommitRejected(u)

SpecUpload == UploadInit /\ [][NextUpload]_vars

\* ------------------- generate_all_visualizations of concurrent workers

\* The plots of generate_all_visualizations, in the order it makes them.
Plots == <<"chroma_heatmap", "dtw_heatmap", "melody_contours",
           "segments_timeline", "summary_dashboard">>

\* The plot functions that call plt.tight_layout() before saving (lines 89,
\* 162, 236, 317); plot_similarity_summary lays its axes out with a gridspec
\* and does not.
CallsTightLayout(k) == Plots[k] # "summary_dashboard"

\* A renderer that is not running, and one that has returned.
NotRendering == [plot |-> 0, step |-> "idle"]
Rendered == [plot |-> Len(Plots) + 1, step |-> "done"]

\* The figure the renderer of job j makes for its k-th plot.
Figure(j, k) == <<j, k>>

RenderInit ==
    /\ JobInit /\ UploadIdle /\ AnalyzeIdle /\ IdentifyIdle
    /\ phase = "render"
    /\ DtwIdle /\ ChromaIdle /\ ScoreIdle /\ LocalIdle /\ CompareIdle
    /\ ExtractIdle
    /\ RenderIdle

renderFrame == <<jobVars, pureVars, uploadVars, analyzeVars, identifyVars>>

\* app.py line 510: the worker of job j calls generate_all_visualizations.
RenderStart(j) ==
    /\ rpc[j] = NotRendering
    /\ rpc' = [rpc EXCEPT ![j] = [plot |-> 1, step |-> "figure"]]
    /\ UNCHANGED <<figs, laid_out, images, renderFrame>>

\* plt.subplots(...) / plt.figure(...) (lines 58, 117, 194, 261, 335): the
\* new figure is registered with pyplot and becomes the current figure.
PlotFigure(j) ==
    /\ rpc[j].step = "figure"
    /\ figs' = Append(figs, Figure(j, rpc[j].plot))
    /\ rpc' = [rpc EXCEPT ![j].step =
                  IF CallsTightLayout(rpc[j].plot) THEN "layout" ELSE "save"]
    /\ UNCHANGED <<laid_out, images, renderFrame>>

\* plt.tight_layout() acts on plt.gcf(), the current figure of the process:
\* the figure registered last among the open ones.
CurrentFigure(j) == figs[Len(figs)]

\* Lines 89, 162, 236, 317: plt.tight_layout().
PlotTightLayout(j) ==
    /\ rpc[j].step = "layout"
    /\ laid_out' = laid_out \cup {CurrentFigure(j)}
    /\ rpc' = [rpc EXCEPT ![j].step = "save"]
    /\ UNCHANGED <<figs, images, renderFrame>>

\* self._fig_to_bytes(fig) (lines 92, 165, 239, 320, 411): the renderer's own
\* figure is saved, with the layout it has at that moment, and the bytes
\* become the img_bytes of generate_all_visualizations, which holds the
\* image of the plot made last.
PlotSave(j) ==
    /\ rpc[j].step = "save"
    /\ images' = [images EXCEPT ![j] =
           {[name |-> Plots[rpc[j].plot],
             layout |-> IF Figure(j, rpc[j].plot) \in laid_out
                        THEN "tight" ELSE "default"]}]
    /\ rpc' = [rpc EXCEPT ![j].step = "close"]
    /\ UNCHANGED <<figs, laid_out, renderFrame>>

\* plt.close(fig) (lines 93, 166, 240, 321, 412), then the next plot;
\* the segments timeline is made only when similar segments were found
\* (line 550); after the last plot the dictionary is returned.
PlotClose(j) ==
    /\ rpc[j].step = "close"
    /\ LET k == rpc[j].plot
           Open(f) == f # Figure(j, k)
       IN /\ figs' = SelectSeq(figs, Open)
          /\ laid_out' = laid_out \ {Figure(j, k)}
          /\ \E next \in (IF Plots[k] = "melody_contours"
                          THEN {k + 1, k + 2} ELSE {k + 1}) :
                 rpc' = [rpc EXCEPT ![j] =
                            IF next > Len(Plots) THEN Rendered
                            ELSE [plot |-> next, step |-> "figure"]]
    /\ UNCHANGED <<images, renderFrame>>

NextRender ==
    \E j \in Jobs :
        \/ RenderStart(j)
        \/ PlotFigure(j)
        \/ PlotTightLayout(j)
        \/ PlotSave(j)
        \/ PlotClose(j)

SpecRender == RenderInit /\ [][NextRender]_vars

\* ------------------------------------------------------- analyze_track

\* What the requested track id points at: no row, a row without audio_blob
\* (a track stored by URL), a row with audio.
AnalyzedTracks == {"missing", "no_blob", "audio"}

\* The dictionaries identify_music can return: a failure with no match, or
\* a success with at least one.
IdentifyOutcomes ==
    {Handle(e) : e \in IdentifyErrors}
    \cup {IdentifyResult(FALSE, <<>>, "Audio file not found"),
          IdentifyResult(FALSE, <<>>, "No matches found for this audio")}
    \cup {IdentifyResult(TRUE, [i \in 1..n |-> i], Null) : n \in 1..MaxRows}

\* Lines 235-240: the Analysis analyze_track creates.
NewAnalysis ==
    [status |-> "processing", completed_at |-> FALSE, artifacts |-> {}]

AnalyzeInit ==
    /\ JobInit /\ RenderIdle /\ UploadIdle /\ IdentifyIdle
    /\ phase = "analyze"
    /\ DtwIdle /\ ChromaIdle /\ ScoreIdle /\ LocalIdle /\ CompareIdle
    /\ ExtractIdle
    /\ AnalyzeIdle

analyzeFrame == <<jobVars, pureVars, renderVars, uploadVars, identifyVars>>

\* POST /tracks/<id>/analyze arrives: a new session, nothing created yet.
AnalyzeCall(track) ==
    /\ apc \in {"idle", "returned", "raised"}
    /\ a_calls < MaxCalls
    /\ a_calls' = a_calls + 1
    /\ a_track' = track
    /\ a_analysis' = NoAnalysis /\ a_session' = NoAnalysis
    /\ a_result' = NotIdentified /\ a_response' = 0
    /\ apc' = "query"
    /\ UNCHANGED <<a_temp, analyzeFrame>>

\* An exception leaves analyze_track: the inner finally removes the
\* temporary file, the outer one closes the session, and Flask answers 500.
AnalyzeUnhandled ==
    /\ apc' = "raised"
    /\ a_response' = 500
    /\ a_temp' = FALSE

\* analyze_track returns a response; the finally clauses run as above.
AnalyzeReturn(code) ==
    /\ apc' = "returned"
    /\ a_response' = code
    /\ a_temp' = FALSE

\* db.commit() succeeds: the session's state of the row is persisted.
Commit == a_analysis' = a_session /\ a_session' = a_session

\* db.commit() raises: the session rolls back, pending objects are
\* expunged and the row's attributes are reloaded from the database.
Rollback == a_session' = a_analysis /\ a_analysis' = a_analysis

\* Line 230 raises (the database cannot be reached).
AnalyzeQueryRaises ==
    /\ apc = "query"
    /\ AnalyzeUnhandled
    /\ UNCHANGED <<a_track, a_analysis, a_session, a_result, a_calls,
                   analyzeFrame>>

\* Lines 230-232.
AnalyzeNotFound ==
    /\ apc = "query" /\ a_track = "missing"
    /\ AnalyzeReturn(404)
    /\ UNCHANGED <<a_track, a_analysis, a_session, a_result, a_calls,
                   analyzeFrame>>

\* Lines 230-241: the track exists; the Analysis is added to the session.
AnalyzeCreate ==
    /\ apc = "query" /\ a_track # "missing"
    /\ a_session' = NewAnalysis
    /\ apc' = "commit_created"
    /\ UNCHANGED <<a_track, a_analysis, a_result, a_response, a_calls,
                   a_temp, analyzeFrame>>

\* Line 242.
AnalyzeCreateCommit ==
    /\ apc = "commit_created"
    /\ Commit
    /\ apc' = "refresh_created"
    /\ UNCHANGED <<a_track, a_result, a_response, a_calls, a_temp,
                   analyzeFrame>>

\* Line 242 raises, outside the inner try.
AnalyzeCreateCommitRaises ==
    /\ apc = "commit_created"
    /\ Rollback
    /\ AnalyzeUnhandled
    /\ UNCHANGED <<a_track, a_result, a_calls, analyzeFrame>>

\* Line 243.
AnalyzeCreateRefresh ==
    /\ apc = "refresh_created"
    /\ apc' = "blob"
    /\ UNCHANGED <<a_track, a_analysis, a_session, a_result, a_response,
                   a_calls, a_temp, analyzeFrame>>

\* Line 243 raises, outside the inner try, after the row was committed.
AnalyzeCreateRefreshRaises ==
    /\ apc = "refresh_created"
    /\ AnalyzeUnhandled
    /\ UNCHANGED <<a_track, a_analysis, a_session, a_result, a_calls,
                   analyzeFrame>>

\* Lines 249-251.
AnalyzeNoBlob ==
    /\ apc = "blob" /\ a_track = "no_blob"
    /\ a_session' = [a_session EXCEPT !.status = "failed"]
    /\ apc' = "commit_no_blob"
    /\ UNCHANGED <<a_track, a_analysis, a_result, a_response, a_calls,
                   a_temp, analyzeFrame>>

\* Lines 252-253.
AnalyzeNoBlobCommit ==
    /\ apc = "commit_no_blob"
    /\ Commit
    /\ AnalyzeReturn(404)
    /\ UNCHANGED <<a_track, a_result, a_calls, analyzeFrame>>

\* A db.commit() inside the inner try raises (lines 252, 286, 305): the
\* except clause of line 318 is entered.
AnalyzeCommitRaises ==
    /\ apc \in {"commit_no_blob", "commit_completed", "commit_failed"}
    /\ Rollback
    /\ apc' = "except"
    /\ UNCHANGED <<a_track, a_result, a_response, a_calls, a_temp,
                   analyzeFrame>>

\* Lines 256-259: the blob is written to a temporary file.
AnalyzeTempFile ==
    /\ apc = "blob" /\ a_track = "audio"
    /\ a_temp' = TRUE
    /\ apc' = "identify"
    /\ UNCHANGED <<a_track, a_analysis, a_session, a_result, a_response,
                   a_calls, analyzeFrame>>

\* Lines 256-258 raise: creating the file (none on disk) or writing it.
AnalyzeTempFileRaises ==
    /\ apc = "blob" /\ a_track = "audio"
    /\ a_temp' \in BOOLEAN
    /\ apc' = "except"
    /\ UNCHANGED <<a_track, a_analysis, a_session, a_result, a_response,
                   a_calls, analyzeFrame>>

\* Line 263: identify_music returns.
AnalyzeIdentify(result) ==
    /\ apc = "identify"
    /\ a_result' = result
    /\ apc' = "result"
    /\ UNCHANGED <<a_track, a_analysis, a_session, a_response, a_calls,
                   a_temp, analyzeFrame>>

\* Lines 265-284: the identification succeeded.
AnalyzeSucceeded ==
    /\ apc = "result" /\ a_result.success
    /\ a_session' = [status |-> "completed", completed_at |-> TRUE,
                     artifacts |-> a_session.artifacts \cup {"music_matches"}]
    /\ apc' = "commit_completed"
    /\ UNCHANGED <<a_track, a_analysis, a_result, a_response, a_calls,
                   a_temp, analyzeFrame>>

\* Line 286.
AnalyzeCompletedCommit ==
    /\ apc = "commit_completed"
    /\ Commit
    /\ apc' = "refresh_completed"
    /\ UNCHANGED <<a_track, a_result, a_response, a_calls, a_temp,
                   analyzeFrame>>

\* Lines 287-300.
AnalyzeCompletedRespond ==
    /\ apc = "refresh_completed"
    /\ AnalyzeReturn(200)
    /\ UNCHANGED <<a_track, a_analysis, a_session, a_result, a_calls,
                   analyzeFrame>>

\* Line 287 raises: the except clause of line 318 is entered.
AnalyzeCompletedRefreshRaises ==
    /\ apc = "refresh_completed"
    /\ apc' = "except"
    /\ UNCHANGED <<a_track, a_analysis, a_session, a_result, a_response,
                   a_calls, a_temp, analyzeFrame>>

\* Lines 301-304: the identification failed.
AnalyzeFailed ==
    /\ apc = "result" /\ ~a_result.success
    /\ a_session' = [a_session EXCEPT !.status = "failed"]
    /\ apc' = "commit_failed"
    /\ UNCHANGED <<a_track, a_analysis, a_result, a_response, a_calls,
                   a_temp, analyzeFrame>>

\* Lines 305-316.
AnalyzeFailedCommit ==
    /\ apc = "commit_failed"
    /\ Commit
    /\ AnalyzeReturn(200)
    /\ UNCHANGED <<a_track, a_result, a_calls, analyzeFrame>>

\* Lines 318-320: the except clause marks the analysis failed.
AnalyzeExcept ==
    /\ apc = "except"
    /\ a_session' = [a_session EXCEPT !.status = "failed"]
    /\ apc' = "commit_except"
    /\ UNCHANGED <<a_track, a_analysis, a_result, a_response, a_calls,
                   a_temp, analyzeFrame>>

\* Lines 321-327.
AnalyzeExceptCommit ==
    /\ apc = "commit_except"
    /\ Commit
    /\ AnalyzeReturn(500)
    /\ UNCHANGED <<a_track, a_result, a_calls, analyzeFrame>>

\* Line 321 raises inside the except clause: nothing catches it.
AnalyzeExceptCommitRaises ==
    /\ apc = "commit_except"
    /\ Rollback
    /\ AnalyzeUnhandled
    /\ UNCHANGED <<a_track, a_result, a_calls, analyzeFrame>>

NextAnalyze ==
    \/ \E track \in AnalyzedTracks : AnalyzeCall(track)
    \/ AnalyzeQueryRaises
    \/ AnalyzeNotFound
    \/ AnalyzeCreate
    \/ AnalyzeCreateCommit
    \/ AnalyzeCreateCommitRaises
    \/ AnalyzeCreateRefresh
    \/ AnalyzeCreateRefreshRaises
    \/ AnalyzeNoBlob
    \/ AnalyzeNoBlobCommit
    \/ AnalyzeCommitRaises
    \/ AnalyzeTempFile
    \/ AnalyzeTempFileRaises
    \/ \E result \in IdentifyOutcomes : AnalyzeIdentify(result)
    \/ AnalyzeSucceeded
    \/ AnalyzeCompletedCommit
    \/ AnalyzeCompletedRespond
    \/ AnalyzeCompletedRefreshRaises
    \/ AnalyzeFailed
    \/ AnalyzeFailedCommit
    \/ AnalyzeExcept
    \/ AnalyzeExceptCommit
    \/ AnalyzeExceptCommitRaises

SpecAnalyze == AnalyzeInit /\ [][NextAnalyze]_vars

\* ------------------------------------------------------- claims: the jobs

Terminal == {"completed", "failed"}

\* C1: whenever a step of the worker has raised and the worker has finished,
\* the persisted status is failed and the persisted summary holds the error
\* message; no finished worker leaves the persisted status processing.
C1_FailureMarksFailed ==
    \A j \in Jobs :
        pc[j] = "done" =>
            /\ status[j] # "processing"
            /\ raised[j] => (status[j] = "failed" /\ summary[j] = "error")

\* C2: once the persisted status of a job is completed or failed, no step
\* of any handler or worker changes it.
C2_TerminalIsFinal ==
    [][\A j \in Jobs : status[j] \in Terminal => status'[j] = status[j]]_vars

\* A worker has run to its end after its analysis was persisted completed,
\* and another one after its analysis was persisted failed.
C2_Witness ==
    /\ \E j \in Jobs : status[j] = "completed" /\ pc[j] = "done"
    /\ \E j \in Jobs : status[j] = "failed" /\ pc[j] = "done" /\ raised[j]

\* C3 as stated: a job's row is first persisted in status pending.
C3_CreatedPending ==
    [][\A j \in Jobs :
          (status[j] = "none" /\ status'[j] # "none") => status'[j] = "pending"]_vars

\* C3 as amended: a job's row is first persisted in status processing, never
\* in pending or in a terminal status; the status is never pending; and it
\* changes only from processing to completed or failed.
C3_Lifecycle ==
    [][\A j \in Jobs :
          /\ (status[j] = "none" /\ status'[j] # "none") => status'[j] = "processing"
          /\ status'[j] # "pending"
          /\ (status[j] # "none" /\ status'[j] # status[j]) =>
                (status[j] = "processing" /\ status'[j] \in Terminal)]_vars

\* A job has been created and its worker has brought it to a terminal status.
C3_Witness ==
    \E j \in Jobs : response[j] = 202 /\ status[j] \in Terminal /\ pc[j] = "done"

\* C4: an analysis with a persisted artifact is persisted as completed; one
\* persisted as failed or processing has no persisted artifact.
C4_ArtifactsOnlyWhenCompleted ==
    \A j \in Jobs : artifacts[j] # {} => status[j] = "completed"

\* A worker failed at the final commit, after every artifact had been added
\* to its session, and was persisted failed; another published its report.
C4_Witness ==
    /\ \E j \in Jobs :
          /\ status[j] = "failed" /\ pc[j] = "done"
          /\ progress_store[j] = Progress("failed", 0)
          /\ artifacts[j] = {}
    /\ \E j \in Jobs : ReportType \in artifacts[j]

\* C5: when the worker has exited, none of the temporary files it created
\* is left on disk.
C5_TempFilesRemoved ==
    \A j \in Jobs : pc[j] = "done" => disk[j] = {}

\* ----------------------------------------------------- claims: the DTW

T1 == Len(features1)
T2 == Len(features2)

\* The three steps a forward alignment path may take.
ForwardSteps == {<<1, 0>>, <<0, 1>>, <<1, 1>>}

\* p is a path from the first point a to the last point b whose successive
\* points differ by d or -d for a step d, according to the sign sgn.
IsPath(p, a, b, sgn) ==
    /\ Len(p) >= 1
    /\ p[1] = a
    /\ p[Len(p)] = b
    /\ \A k \in 1..(Len(p) - 1) :
          <<sgn * (p[k + 1][1] - p[k][1]), sgn * (p[k + 1][2] - p[k][2])>>
              \in ForwardSteps

\* C6 as stated: the returned path starts at (0,0), ends at (T1-1,T2-1) and
\* each point follows the previous one by a step (+1,0), (0,+1) or (+1,+1).
C6_PathForward ==
    phase = "dtw_done" =>
        IsPath(dtw_out.wp, <<0, 0>>, <<T1 - 1, T2 - 1>>, 1)

\* C6 as amended: the returned path is in backtracking order: it starts at
\* (T1-1,T2-1), ends at (0,0) and each point follows the previous one by a
\* step (-1,0), (0,-1) or (-1,-1), so both coordinates are non-increasing.
C6_PathBackward ==
    phase = "dtw_done" =>
        /\ IsPath(dtw_out.wp, <<T1 - 1, T2 - 1>>, <<0, 0>>, -1)
        /\ \A k \in 1..(Len(dtw_out.wp) - 1) :
              /\ dtw_out.wp[k + 1][1] <= dtw_out.wp[k][1]
              /\ dtw_out.wp[k + 1][2] <= dtw_out.wp[k][2]

\* An alignment of two sequences of different lengths, both longer than one
\* frame, has been computed; its path takes a diagonal and a non-diagonal
\* step.
C6_Witness ==
    /\ phase = "dtw_done"
    /\ T1 > 1 /\ T2 > 1 /\ T1 # T2
    /\ Len(dtw_out.wp) = 3

\* The sum of the cost-matrix entries along a path of 0-based points.
PathCost(C, p) == SumSeq([k \in 1..Len(p) |-> C[p[k][1] + 1][p[k][2] + 1]])

RECURSIVE PathsFrom(_, _, _, _)
\* Every forward path from the 0-based point (i, j) to (n - 1, m - 1).
PathsFrom(i, j, n, m) ==
    IF i = n - 1 /\ j = m - 1 THEN { << <<i, j>> >> }
    ELSE UNION { { << <<i, j>> >> \o q : q \in PathsFrom(i + d[1], j + d[2], n, m) } :
                 d \in {e \in ForwardSteps : i + e[1] <= n - 1 /\ j + e[2] <= m - 1} }

\* C7: the distance is the sum of the costs along the returned path divided
\* by the number of its points, and no path from (0,0) to (T1-1,T2-1) built
\* from the three steps has a smaller sum.
C7_NormalisedMinimum ==
    phase = "dtw_done" =>
        /\ dtw_out.distance[2] = Len(dtw_out.wp)
        /\ dtw_out.distance[1] = PathCost(dtw_out.C, dtw_out.wp)
        /\ \A q \in PathsFrom(0, 0, T1, T2) :
              dtw_out.distance[1] <= PathCost(dtw_out.C, q)

\* A distance has been computed for which the cheapest path is strictly
\* cheaper than the diagonal-first path and longer than either sequence.
C7_Witness ==
    /\ phase = "dtw_done"
    /\ T1 = T2 /\ T1 > 1
    /\ Len(dtw_out.wp) > T1
    /\ dtw_out.distance[1] > 0
    /\ dtw_out.distance[1] <
          PathCost(dtw_out.C, [k \in 1..T1 |-> <<k - 1, k - 1>>])

\* -------------------------------------------------- claims: the chroma

\* A chroma matrix that no shift in 1..11 maps to itself.
NoRotationalSymmetry(c) ==
    \A s \in Shifts \ {0} : transpose_chroma(c, s) # c

\* C8: transposing by s and then by (12 - s) mod 12 gives back the original
\* chroma matrix, for every shift s in 0..11.
C8_RoundTrip ==
    phase = "restored" => restored = chroma1

\* A matrix without rotational symmetry has been transposed by a non-zero
\* shift, which changed it, and transposed back.
C8_Witness ==
    /\ phase = "restored"
    /\ semitones # 0
    /\ NoRotationalSymmetry(chroma1)
    /\ transposed # chroma1

SameFraction(a, b) == a[1] * b[2] = b[1] * a[2]

\* C9: the returned shift is in 0..11, no shift has a greater similarity,
\* and no smaller shift has the same similarity.
C9_BestShift ==
    phase = "found" =>
        /\ best[1] \in Shifts
        /\ LET sims == Tuple([k \in 1..NumPitchClasses |->
                                 ShiftSimilarity(chroma1, chroma2, k - 1)])
           IN \A s \in Shifts :
                 /\ ~Gt(sims[s + 1], sims[best[1] + 1])
                 /\ SameFraction(sims[s + 1], sims[best[1] + 1]) => best[1] <= s

\* A search has returned a non-zero shift that ties with a later shift and
\* beats shift 0.
C9_Witness ==
    /\ phase = "found"
    /\ best[1] > 0
    /\ \E s \in Shifts :
          /\ s > best[1]
          /\ SameFraction(ShiftSimilarity(chroma1, chroma2, s), best[2])
    /\ Gt(best[2], ShiftSimilarity(chroma1, chroma2, 0))

\* C10: when chroma2 is chroma1 transposed up by 5 semitones and chroma1 has
\* no rotational symmetry, the search returns shift 5 and the similarity of
\* shift 5 is strictly greater than that of every other shift.
C10_ShiftedByFive ==
    (/\ phase = "found"
     /\ chroma2 = transpose_chroma(chroma1, 5)
     /\ NoRotationalSymmetry(chroma1)) =>
        /\ best[1] = 5
        /\ LET sims == Tuple([k \in 1..NumPitchClasses |->
                                 ShiftSimilarity(chroma1, chroma2, k - 1)])
           IN \A s \in Shifts \ {5} : Gt(sims[6], sims[s + 1])

\* ------------------------------------------------- claims: the scorer

InUnit(x) == FracLe(Zero, x) /\ FracLe(x, One)

\* C12: for similarities in [0,1] and a tempo ratio >= 0, the overall score
\* and the three component scores lie in [0,1], the percentage is 100 times
\* the score, the tempo component is 1 / (1 + |ratio - 1|), and the weights
\* are 0.5, 0.4 and 0.1, which sum to 1.
C12_ScoreInUnitInterval ==
    phase = "scored" =>
        LET r == overall_result
            c == r.component_scores
            w == r.weights
        IN /\ InUnit(r.overall_similarity_score)
           /\ InUnit(c.chroma_harmony) /\ InUnit(c.melody_contour)
           /\ InUnit(c.tempo)
           /\ r.similarity_percentage[1] * r.overall_similarity_score[2]
                  = 100 * r.overall_similarity_score[1] * r.similarity_percentage[2]
           /\ FracMul(c.tempo,
                      FracAdd(One, FracAbs(FracSub(tempo_ratio, One)))) = One
           /\ Frac(w.chroma_harmony[1], w.chroma_harmony[2]) = <<1, 2>>
           /\ Frac(w.melody_contour[1], w.melody_contour[2]) = <<2, 5>>
           /\ Frac(w.tempo[1], w.tempo[2]) = <<1, 10>>
           /\ FracAdd(FracAdd(w.chroma_harmony, w.melody_contour), w.tempo) = One

\* A score has been computed from similarities strictly inside (0,1) and a
\* tempo ratio above 1, which costs a tempo penalty.
C12_Witness ==
    /\ phase = "scored"
    /\ FracLt(Zero, chroma_similarity) /\ FracLt(chroma_similarity, One)
    /\ FracLt(Zero, melody_similarity) /\ FracLt(melody_similarity, One)
    /\ FracLt(One, tempo_ratio)
    /\ FracLt(overall_result.component_scores.tempo, One)

\* The verdict sentence of each level.
VerdictOf(level) ==
    CASE level = "Very High" -> "Highly similar - possible plagiarism or cover"
      [] level = "High" -> "Significant similarity detected"
      [] level = "Moderate" -> "Some similarities found"
      [] level = "Low" -> "Minor similarities only"
      [] level = "Very Low" -> "No significant similarity"

\* C13: the level is determined by the percentage p with inclusive lower
\* bounds (Very High iff p >= 80, High iff 60 <= p < 80, Moderate iff
\* 40 <= p < 60, Low iff 20 <= p < 40, Very Low iff p < 20), and every
\* level carries its own fixed verdict.
C13_LevelThresholds ==
    phase = "scored" =>
        LET p == overall_result.similarity_percentage
            level == overall_result.similarity_level
            ge(b) == FracLe(<<b, 1>>, p)
        IN /\ (level = "Very High") <=> ge(80)
           /\ (level = "High") <=> (ge(60) /\ ~ge(80))
           /\ (level = "Moderate") <=> (ge(40) /\ ~ge(60))
           /\ (level = "Low") <=> (ge(20) /\ ~ge(40))
           /\ (level = "Very Low") <=> ~ge(20)
           /\ overall_result.verdict = VerdictOf(level)

\* A percentage that sits exactly on a lower bound has been given the level
\* of that bound.
C13_Witness ==
    /\ phase = "scored"
    /\ overall_result.similarity_percentage = <<80, 1>>
    /\ overall_result.similarity_level = "Very High"

\* --------------------------------------- claims: the segment detector

\* The window positions the two loops of compute_local_alignment visit.
EvaluatedWindows(C, w) ==
    {<<i, j>> \in (0..Len(C)) \X (0..Len(C[1])) :
        /\ i < Len(C) - w /\ j < Len(C[1]) - w
        /\ i % (w \div 2) = 0 /\ j % (w \div 2) = 0}

\* The mean of 1 / (1 + cost) over the window at (i, j), from a common
\* denominator.
MeanSimilarity(C, i, j, w) ==
    LET cells == {<<a, b>> : a \in (i + 1)..(i + w), b \in (j + 1)..(j + w)}
        den == Product({1 + C[c[1]][c[2]] : c \in cells})
        num == SumSeq([k \in 1..(w * w) |->
                   den \div (1 + C[i + ((k - 1) \div w) + 1][j + ((k - 1) % w) + 1])])
    IN Frac(num, den * w * w)

NonIncreasing(regions) ==
    \A k \in 1..(Len(regions) - 1) :
        FracLe(regions[k + 1].similarity_score, regions[k].similarity_score)

\* C15: the regions returned are exactly the evaluated windows whose mean
\* similarity is strictly greater than 0.7, each once and with that mean as
\* its score, in non-increasing order of score.
C15_RegionsAboveThreshold ==
    phase = "local_done" =>
        LET C == cost_matrix
            w == window_size
            good == {p \in EvaluatedWindows(C, w) :
                        FracLt(<<7, 10>>, MeanSimilarity(C, p[1], p[2], w))}
        IN /\ Len(local_regions) = Cardinality(good)
           /\ \A p \in good :
                  \E k \in 1..Len(local_regions) :
                      /\ local_regions[k].track1_start_frame = p[1]
                      /\ local_regions[k].track2_start_frame = p[2]
                      /\ local_regions[k].similarity_score
                             = MeanSimilarity(C, p[1], p[2], w)
           /\ NonIncreasing(local_regions)

\* Several windows were evaluated, one was rejected, and the retained ones
\* have different scores, the best of which was not the first evaluated.
C15_Witness ==
    /\ phase = "local_done"
    /\ Len(local_regions) >= 2
    /\ Len(local_regions) < Cardinality(EvaluatedWindows(cost_matrix, window_size))
    /\ local_regions[1].similarity_score # local_regions[Len(local_regions)].similarity_score
    /\ <<local_regions[1].track1_start_frame,
         local_regions[1].track2_start_frame>> # <<0, 0>>

Frames(region) ==
    <<region.track1_start_frame, region.track1_end_frame,
      region.track2_start_frame, region.track2_end_frame>>

\* The segments are the detector regions with a score >= the threshold in
\* use, in the detector's order.
SegmentsAreFilteredRegions ==
    LET regions == compute_local_alignment(cost_matrix, window_size)
        kept == {k \in 1..Len(regions) :
                    FracLe(threshold.value, regions[k].similarity_score)}
        \* the index in `regions` of the m-th kept region
        nth(m) == CHOOSE k \in kept :
                      Cardinality({l \in kept : l < k}) = m - 1
    IN /\ Len(similar_segments) = Cardinality(kept)
       /\ \A m \in 1..Len(similar_segments) :
              /\ Frames(similar_segments[m]) = Frames(regions[nth(m)])
              /\ similar_segments[m].similarity_score
                     = regions[nth(m)].similarity_score

\* C16 (as claimed): find_similar_segments surfaces exactly the detector
\* regions with a score >= the reporting threshold, in the detector's order,
\* and the reporting threshold is 0.65 when the caller supplies none.
C16_DefaultThresholdIs065 ==
    phase = "segments_done" =>
        /\ SegmentsAreFilteredRegions
        /\ ~threshold.supplied => threshold.value = <<65, 100>>

\* C16 (amended): find_similar_segments surfaces exactly the detector
\* regions with a score >= the reporting threshold, in the detector's order;
\* the reporting threshold is the caller's when one is supplied (0.65 from
\* compare_tracks) and 0.7 when the caller supplies none.
C16_ReportingThreshold ==
    phase = "segments_done" =>
        /\ SegmentsAreFilteredRegions
        /\ ~threshold.supplied => threshold.value = <<7, 10>>
        /\ CompareTracksThreshold = <<65, 100>>

\* A supplied threshold above the detector's 0.7 has removed one detector
\* region and kept another.
C16_Witness ==
    /\ phase = "segments_done"
    /\ threshold.supplied
    /\ FracLt(<<7, 10>>, threshold.value)
    /\ Len(similar_segments) >= 1
    /\ Len(similar_segments)
           < Len(compute_local_alignment(cost_matrix, window_size))

\* --------------------------------------------- claims: compare_tracks

AfterChroma == {"chroma_compared", "melody_compared", "segments_found",
                "tempo_compared", "compared"}
AfterMelody == {"melody_compared", "segments_found", "tempo_compared",
                "compared"}
AfterTempo == {"tempo_compared", "compared"}

C14_TempoRatio ==
    phase \in AfterTempo =>
        /\ tempo_ratio # DivisionError
        /\ tempo2 > 0 => tempo_ratio[1] * tempo2 = tempo1 * tempo_ratio[2]
        /\ tempo2 = 0 => tempo_ratio = One

\* The second track has tempo 0 and the first one has not.
C14_Witness ==
    /\ phase = "tempo_compared"
    /\ tempo2 = 0 /\ tempo1 > 0
    /\ tempo_ratio = One

AllUnvoiced(f0) == \A k \in 1..Len(f0) : f0[k] = 0

\* C17: a fully unvoiced track compared against a track that has voiced
\* frames gets a melody similarity (a number, not a failure), and that
\* similarity is strictly below the 1 that two identical contours get.
C17_UnvoicedIsLow ==
    (phase \in AfterMelody /\ AllUnvoiced(f0_1) /\ ~AllUnvoiced(f0_2)) =>
        /\ melody_result.melody_similarity[2] > 0
        /\ FracLe(Zero, melody_result.melody_similarity)
        /\ FracLt(melody_result.melody_similarity, One)

\* ------------------------------------- claims: extract_all_features

\* C18: the error extract_all_features raises for a missing or unreadable
\* audio file differs in type from the error it raises when the audio was
\* decoded and a feature computation failed.
C18_TypedErrors ==
    \A a \in error_log, b \in error_log :
        (a[1] \in {"missing", "unreadable"} /\ b[1] = "computation")
            => a[2] # b[2]

\* ------------------------------------ claims: progress and the response

\* C19: whenever the progress endpoint reports completed or failed for an
\* analysis, the persisted status of that analysis is that same status.
C19_TerminalReportIsPersisted ==
    \A j \in Jobs :
        LET r == get_analysis_progress(j)
        IN (r.code = 200 /\ r.status \in Terminal) => status[j] = r.status

WindowsInsideMatrix(C, w) ==
    {<<i, j>> \in (0..Len(C)) \X (0..Len(C[1])) :
        /\ i + w <= Len(C) /\ j + w <= Len(C[1])
        /\ i % (w \div 2) = 0 /\ j % (w \div 2) = 0}

\* C22: compute_local_alignment evaluates every window position the stride
\* reaches, the window that ends exactly at the matrix edge included; so
\* every such window whose mean similarity is above 0.7 is among the
\* regions returned.
C22_EveryWindowEvaluated ==
    phase = "local_done" =>
        \A p \in WindowsInsideMatrix(cost_matrix, window_size) :
            FracLt(<<7, 10>>,
                   MeanSimilarity(cost_matrix, p[1], p[2], window_size))
            => \E k \in 1..Len(local_regions) :
                   /\ local_regions[k].track1_start_frame = p[1]
                   /\ local_regions[k].track2_start_frame = p[2]

\* The regions of the state: those of the detector, or the reported ones.
ReturnedRegions ==
    IF phase = "local_done" THEN local_regions
    ELSE IF phase = "segments_done" THEN similar_segments
    ELSE <<>>

\* C23: every segment returned by compute_local_alignment and by
\* find_similar_segments spans exactly window_size frames on both tracks,
\* lies inside the matrix, and has a score in [0,1] that does not exceed its
\* max_similarity.
C23_SegmentBounds ==
    \A k \in 1..Len(ReturnedRegions) :
        LET r == ReturnedRegions[k]
        IN /\ r.track1_end_frame - r.track1_start_frame = window_size
           /\ r.track2_end_frame - r.track2_start_frame = window_size
           /\ r.track1_start_frame >= 0 /\ r.track2_start_frame >= 0
           /\ r.track1_end_frame <= Len(cost_matrix)
           /\ r.track2_end_frame <= Len(cost_matrix[1])
           /\ InUnit(r.similarity_score)
           /\ FracLe(r.similarity_score, r.max_similarity)

\* Reported segments, one of them away from the origin and with a mean
\* below its maximum.
C23_Witness ==
    /\ phase = "segments_done"
    /\ \E k \in 1..Len(similar_segments) :
           /\ similar_segments[k].track1_start_frame > 0
           /\ FracLt(similar_segments[k].similarity_score,
                     similar_segments[k].max_similarity)

\* ------------------------ claims: the similarity of the best transposition

\* The similarity 1 / (1 + distance) of the shift, as the search computed it.
SimilarityOfShift(shift) ==
    IF phase = "found" THEN ShiftSimilarity(chroma1, chroma2, shift)
    ELSE SimilarityFloat(dtw_out, CosineScale)

\* A finite number: neither NaN nor an infinity.
IsFinite(x) == x[2] > 0

\* C25: the similarity find_best_transposition returns is the similarity
\* 1 / (1 + distance) of the shift it returns and lies in (0, 1], for every
\* pair of chroma inputs, those whose DTW distances are undefined included.
C25_ReturnedSimilarity ==
    phase \in {"found", "found_undefined"} =>
        /\ IsFinite(best[2])
        /\ IsFinite(SimilarityOfShift(best[1]))
        /\ SameFraction(best[2], SimilarityOfShift(best[1]))
        /\ FracLt(Zero, best[2]) /\ FracLe(best[2], One)

\* --------------------- claims: the result of the chroma comparison

AnalysisMethods ==
    {"chromaprint", "hpcp", "dtw", "lyrics", "music_identification",
     "similarity_detection", "other"}
AnalysisStatuses ==
    {"pending", "processing", "running", "completed", "succeeded", "failed"}
ArtifactTypes ==
    {"chromaprint", "hpcp", "dtw_matrix", "dtw_path", "plot_image",
     "feature_json", "music_matches", "other"}

\* C24: every value written to Analysis.method, Analysis.status and
\* Artifact.artifact_type of a comparison analysis is allowed by the check
\* constraint of its column.
C24_ValuesSatisfyConstraints ==
    \A j \in Jobs :
        status[j] # "none" =>
            /\ method[j] \in AnalysisMethods
            /\ status[j] \in AnalysisStatuses
            /\ artifacts[j] \subseteq ArtifactTypes

\* ------------------------------------ claims: the progress percentage

\* C27: for each comparison job the percentage stored with status
\* processing never decreases from one update to the next, and the stored
\* percentage is 100 exactly when the stored status is completed.
C27_ProgressMonotonic ==
    /\ [](\A j \in DOMAIN progress_store :
            progress_store[j].progress = 100
                <=> progress_store[j].status = "completed")
    /\ [][\A j \in DOMAIN progress_store :
            (/\ progress_store[j].status = "processing"
             /\ progress_store'[j].status = "processing")
                => progress_store'[j].progress >= progress_store[j].progress]_vars

\* One job has been updated up to 90 per cent, still processing, while
\* another one is stored as completed.
C27_Witness ==
    \E j \in DOMAIN progress_store, k \in DOMAIN progress_store :
        /\ progress_store[j] = Progress("processing", 90)
        /\ progress_store[k] = Progress("completed", 100)

\* ---------------------------------------------- claims: identify

C28_UploadsDeduplicated ==
    /\ \A s \in tracks, t \in tracks :
           s.checksum_sha256 = t.checksum_sha256 => s = t
    /\ \A u \in Uploads :
           (upc[u] = "returned" /\ upload_response[u].code # 400) =>
               \/ /\ upload_response[u].code = 201
                  /\ TrackRow(u) \in tracks
               \/ /\ upload_response[u].code = 200
                  /\ \E t \in WithChecksum(checksum[u]) :
                         t.id = upload_response[u].track /\ t.id # u

\* ------------------------------- claims: concurrent comparisons

\* What a plot looks like when its job runs alone: the plot functions that
\* call tight_layout save a tightly laid out figure.
AloneLayout(name) ==
    IF name = "summary_dashboard" THEN "default" ELSE "tight"

\* C21: concurrent comparisons do not interfere: whatever the interleaving
\* of the workers, the result a job publishes -- here each image its
\* renderer produces, at the moment it is produced and until the next one
\* replaces it -- is the one it publishes when it runs alone.
C21_NoInterference ==
    \A j \in Jobs : \A image \in images[j] :
        image.layout = AloneLayout(image.name)

\* ------------------------------- claims: the analyze endpoint

\* The endpoint has answered the request for a track that exists and whose
\* Analysis row was created.
AnalyzeAnswered ==
    /\ apc \in {"returned", "raised"}
    /\ a_response # 0
    /\ a_analysis # NoAnalysis

\* C29: whenever the analyze endpoint has answered a request for an existing
\* track, the analysis it created is persisted in a terminal status:
\* completed, with completed_at set and a music_matches artifact, if the
\* identification succeeded, failed otherwise; never processing.
C29_AnalysisTerminal ==
    AnalyzeAnswered =>
        IF a_result.success
        THEN /\ a_analysis.status = "completed"
             /\ a_analysis.completed_at
             /\ "music_matches" \in a_analysis.artifacts
        ELSE a_analysis.status = "failed"

====
